---- MODULE Spec2Model ----
(***************************************************************************)
(* Verification model of the OSP reference server (osp-sdk).               *)
(*                                                                         *)
(*   Registry  : osp_server/logic/registry.py  (RegistryService)           *)
(*   Delivery  : osp_server/logic/delivery.py  (DeliveryContractEnforcer)  *)
(*   Degradation : osp_server/logic/degradation.py (DegradationController) *)
(*   Router    : osp_server/logic/routing.py   (RouterService)             *)
(*   Server    : osp_server/server.py, osp_server/middleware/signature.py  *)
(*   Agent     : ai_core/agent_manager.py      (AgentManager)              *)
(*                                                                         *)
(* Each component has its own specification (SpecRegistry, SpecDelivery,   *)
(* SpecFreshness, SpecProofThreads, SpecDegradation, SpecRouter,           *)
(* SpecServer, SpecAgent); the variables of the components a               *)
(* specification does not drive stay at their initial value.               *)
(***************************************************************************)
EXTENDS Integers, Sequences, FiniteSets, TLC

(***************************************************************************)
(* Bounds of the model (not program constants).                            *)
(***************************************************************************)
\* total number of transparency-log appends explored per behaviour
MaxRegLog == 3

\* the monitor threads start_monitoring creates over a run
MaxLoops == 2
\* total number of proof-log appends explored per behaviour
MaxProofs == 4
\* last value of the wall clock
MaxTime == 5
\* largest ttl_seconds and issue time of the freshness specification
MaxTtl == 6
MaxIssuedAt == 2
\* total number of proof-log appends by concurrent threads per behaviour
MaxThreadAppends == 3
\* number of /osp-rpc requests per behaviour that reach the router or the
\* delivery enforcer
MaxRequests == 1
\* the rate limiter's clock runs from 0 to MaxClock seconds
MaxClock == 3
\* number of requests one client sends per behaviour
MaxClientRequests == 3

(***************************************************************************)
(* Program constants.  The containers are bounded in the source by         *)
(* MAX_ENTRIES = 10000 and MAX_LOG = 50000; the model keeps the eviction   *)
(* code and scales the capacities down so that eviction is reachable.      *)
(***************************************************************************)
MAX_ENTRIES == 1
MAX_LOG == 2
\* delivery.py: MAX_CONTRACTS = 1000 and MAX_PROOF_LOG = 5000, scaled likewise
MAX_CONTRACTS == 1
MAX_PROOF_LOG == 2
\* delivery.py issue_contract: max_retries: int = 3
DEFAULT_MAX_RETRIES == 3
\* degradation.py: the values of the DegradationLevel enum
D0_NORMAL == 0
D1_REDUCED_INTELLIGENCE == 1
D2_MINIMAL == 2
D3_CRITICAL == 3
\* degradation.py _monitor_loop: hysteresis configuration
ESCALATION_THRESHOLD == 2
RECOVERY_THRESHOLD == 4
\* routing.py: MAX_QUERY_LENGTH = 4096 and CACHE_SIZE = 256, scaled down so
\* that truncation and eviction are reachable
MAX_QUERY_LENGTH == 10
CACHE_SIZE == 2
\* server.py: RATE_LIMIT_WINDOW = 60 seconds and RATE_LIMIT_MAX = 100 requests,
\* scaled down so that a window can be filled
RATE_LIMIT_WINDOW == 2
RATE_LIMIT_MAX == 2
\* the client IPs that send requests
Clients == {"10.0.0.1", "10.0.0.2"}

VARIABLES
    \* ---- RegistryService ----
    entries,        \* self._entries : OrderedDict, as a sequence in insertion order
    log,            \* self._log     : transparency log (the retained entries)
    revoked,        \* self._revoked : set of revoked skill_refs
    reg_result,     \* what the last register / revoke call returned (observer)
    ever_revoked,   \* skill_refs for which a revoke call has succeeded (observer)
    orig_signer,    \* signer of the first accepted registration per skill (observer)
    log_appended,   \* number of entries ever appended to self._log (observer)
    \* ---- DeliveryContractEnforcer ----
    now,            \* the wall clock, datetime.now(timezone.utc)
    contracts,      \* self._contracts : OrderedDict, as a sequence in insertion order
    proof_log,      \* self._proof_log : the retained proof entries
    pc,             \* "idle", or "in_fn" while execute_fn runs inside execute_with_contract
    call,           \* frame of the current (or last) execute_with_contract call
    del_result,     \* what the last execute_with_contract call returned (observer)
    proof_hist,     \* every proof entry ever appended, in append order (observer)
    fr_seen,        \* validate_contract: time of the last call and the label before it
    thr,            \* per thread: its position in _append_proof and its local entry
    \* ---- DegradationController ----
    current_level,      \* self.current_level, as the value of the enum member
    monitoring,         \* the monitor thread is running _monitor_loop
    high_load_ticks,    \* _monitor_loop local
    normal_load_ticks,  \* _monitor_loop local
    trail,              \* the last samples of the running loop, oldest first (observer)
    manual,             \* set_level was called since the last sample (observer)
    sampled,            \* the current run of samples on one side of the level: its
                        \* length, the targets seen and whether the last one moved the
                        \* level (observer)
    \* ---- RouterService ----
    route_cache,        \* self._cache with self._cache_order: <<key, result>> pairs, oldest first
    routed,             \* the last route call: its request and what it returned (observer)
    lru,                \* the cached keys by last use, oldest first (observer)
    \* ---- server.py ----
    verifier,           \* the server's SignatureVerifier (configured = not None), its
                        \* enforce flag and whether it has a public key
    rpc,                \* the last POST /osp-rpc: the request and its answer (observer)
    \* ---- AgentManager ----
    degradation_controller, \* self.degradation_controller is not None
    active_sessions,        \* the keys of self.active_sessions
    agent,              \* the current (or last) execute_agent call (observer)
    \* ---- server.py, rate limiter ----
    rate_limits,        \* _rate_limits: for each client IP the times check_rate_limit kept
    clock,              \* time.time(), in seconds
    let_through,        \* for each client IP the times of its requests to /osp-rpc that
                        \* went on to the signature check and the dispatch (observer)
    \* ---- DeliveryContractEnforcer called from several threads ----
    callers,            \* for each thread its position in execute_with_contract, the number
                        \* of calls it has made and what its last call returned
    fn_invocations,     \* how often execute_fn has been invoked (observer)
    \* ---- RouterService called from several threads ----
    shared_cache,       \* the keys of self._cache
    shared_order,       \* self._cache_order
    routers,            \* for each thread its position in route and _cache_put, its
                        \* cache key, the local oldest and the number of calls made
    route_error,        \* the exception a route call has raised, "" if none (observer)
    \* ---- SafetyService ----
    lexical_history,    \* self._lexical_history, scores in hundredths
    semantic_history,   \* self._semantic_history, scores in hundredths
    safety_checked,     \* the last check_safety call: the query and what it returned (observer)
    \* ---- DegradationController, monitor thread beside set_level ----
    monitor_write,      \* the set_level call the monitor thread has decided on and not
                        \* yet made: its branch and its target
    \* ---- DegradationController, start_monitoring and stop_monitoring ----
    loops,              \* for each monitor thread ever created where it is in
                        \* _monitor_loop ("unborn" before its creation, "dead" after)
    monitor_thread,     \* self._monitor_thread: the thread created last, 0 for None
    stop_event,         \* self._stop_event: "none", "clear" or "set"
    joining,            \* stop_monitoring is in self._monitor_thread.join(timeout=2)
    wanted              \* start_monitoring was called after a stop_monitoring and no
                        \* stop_monitoring since (observer)

regVars == <<entries, log, revoked, reg_result, ever_revoked, orig_signer,
             log_appended>>

delVars == <<now, contracts, proof_log, pc, call, del_result, proof_hist>>

frVars == <<fr_seen>>

thrVars == <<thr>>

degVars == <<current_level, monitoring, high_load_ticks, normal_load_ticks, trail, manual,
            sampled>>

rtVars == <<route_cache, routed, lru>>

srvVars == <<verifier, rpc>>

agVars == <<degradation_controller, active_sessions, agent>>
rlVars == <<rate_limits, clock, let_through>>

lcVars == <<loops, monitor_thread, stop_event, joining, wanted>>

conVars == <<callers, fn_invocations, shared_cache, shared_order, routers, route_error,
             lexical_history, semantic_history, safety_checked, monitor_write, lcVars>>

vars == <<regVars, delVars, frVars, thrVars, degVars, rtVars, srvVars, agVars, rlVars, conVars>>

notReg == <<delVars, frVars, thrVars, degVars, rtVars, srvVars, agVars, rlVars, conVars>>
notDel == <<regVars, frVars, thrVars, degVars, rtVars, srvVars, agVars, rlVars, conVars>>
notDeg == <<regVars, delVars, frVars, thrVars, rtVars, srvVars, agVars, rlVars, conVars>>
notRt == <<regVars, delVars, frVars, thrVars, degVars, srvVars, agVars, rlVars, conVars>>

(***************************************************************************)
(* Python dict helpers: a dict is a function from its keys; d.get(k, "")   *)
(***************************************************************************)
Get(d, k) == IF k \in DOMAIN d THEN d[k] ELSE ""

EmptyDict == [k \in {} |-> ""]

(***************************************************************************)
(* hashlib.sha256(str(entry).encode()).hexdigest(), modelled as a          *)
(* checksum of the serialized fields.  The digest is a number; a digest of *)
(* 0 is the 64-zero-character genesis value, which no serialization        *)
(* hashes to.                                                              *)
(***************************************************************************)
RECURSIVE Mix(_, _)
Mix(h, fields) ==
    IF fields = <<>> THEN h
    ELSE Mix((h * 31 + Head(fields)) % 65521, Tail(fields))

SHA256(fields) == 1 + Mix(7, fields)

GENESIS == 0

StrCode(s, table) == CHOOSE i \in 1..Len(table) : table[i] = s

(***************************************************************************)
(*                              REGISTRY                                   *)
(***************************************************************************)
Skills == {"org.a", "org.b"}
Signers == {"alice", "bob"}
ADMIN == "__admin__"
Revokers == Signers \cup {ADMIN}
ValidEntryTypes == {"REGISTER", "DELEGATE", "KEY_ROTATE"}

RegStrings == <<"", "org.a", "org.b", "alice", "bob", "__admin__",
                "REGISTER", "DELEGATE", "KEY_ROTATE", "REVOKE",
                "REGISTERED", "REGISTER_REJECTED", "REVOKED", "invalid_signature">>

\* trust anchors submitted with an entry (dicts)
TrustAnchors ==
    { EmptyDict,
      [type |-> "self_signed"],
      [type |-> "root_ca", uri |-> "https://ca", public_key |-> "pem"],
      [type |-> "root_ca", uri |-> "https://ca"],
      [type |-> "root_ca", public_key |-> "pem"],
      [type |-> "intermediate_ca", uri |-> "https://ca", proof |-> "p", public_key |-> "pem"],
      [type |-> "intermediate_ca", uri |-> "https://ca", public_key |-> "pem"],
      [type |-> "did", uri |-> "did:x", public_key |-> "pem"],
      [type |-> "did", uri |-> "https://x", public_key |-> "pem"],
      [type |-> "pgp", uri |-> "https://x", public_key |-> "pem"] }

\* Entries submitted to register.  content_hash is represented by its length
\* (the code reads only len()).  The skill "org.a" is submitted with every
\* entry type, signer and trust anchor; "org.b" is the second key of the
\* bounded map and is submitted by one signer.
WellFormedEntries ==
    [entry_type : ValidEntryTypes, skill_ref : {"org.a"}, signed_by : Signers,
     content_hash : {64}, signature : {"sig"}, trust_anchor : {[type |-> "self_signed"]}]
    \cup
    [entry_type : {"REGISTER"}, skill_ref : {"org.a"}, signed_by : Signers,
     content_hash : {64}, signature : {"sig"}, trust_anchor : TrustAnchors]
    \cup
    [entry_type : {"REGISTER"}, skill_ref : {"org.b"}, signed_by : {"alice"},
     content_hash : {64}, signature : {"sig"}, trust_anchor : {[type |-> "self_signed"]}]

BaseEntries ==
    [entry_type : {"REGISTER"}, skill_ref : {"org.a"}, signed_by : {"alice"},
     content_hash : {64}, signature : {"sig"}, trust_anchor : {[type |-> "self_signed"]}]

MalformedEntries ==
    UNION { { [e EXCEPT !.entry_type = "REVOKE"],
              [e EXCEPT !.skill_ref = ""],
              [e EXCEPT !.content_hash = 5],
              [e EXCEPT !.content_hash = 0],
              [e EXCEPT !.signature = ""] } : e \in BaseEntries }

RegisterInputs == WellFormedEntries \cup MalformedEntries

\* registry.py verify_trust_chain: TRUE iff result["valid"]
verify_trust_chain(entry) ==
    LET trust_anchor == entry.trust_anchor
        anchor_type == Get(trust_anchor, "type")
        uri == Get(trust_anchor, "uri")
        proof == Get(trust_anchor, "proof")
    IN  IF DOMAIN trust_anchor = {} THEN FALSE
        ELSE IF anchor_type = "self_signed" THEN TRUE
        ELSE IF anchor_type = "root_ca" THEN uri # ""
        ELSE IF anchor_type = "intermediate_ca" THEN uri # "" /\ proof # ""
        ELSE IF anchor_type = "did" THEN uri = "did:x"   \* uri.startswith("did:")
        ELSE FALSE

\* the signature of a submitted entry was made with the private key of the
\* trust anchor's public key over the canonical entry, or it was not
SignatureStates == {"genuine", "forged"}

\* crypto.py JCS.verify(data, signature_b64, key_bytes, alg): it canonicalizes
\* data first, outside its try blocks, and _encode raises TypeError for a
\* value that is not None, bool, int, float, str, list or dict
JCS_verify(data, signed) ==
    IF data = "bytes" THEN "raise"
    ELSE IF signed = "genuine" THEN "true"
    ELSE "false"

\* registry.py _verify_signature: TRUE iff result["valid"].  It hands
\* JCS.verify the canonical bytes of the entry, not the entry.
\* crypto is FALSE when importing osp_core.crypto raises ImportError.
verify_signature(entry, crypto, signed) ==
    IF ~crypto THEN TRUE
    ELSE IF entry.signature = "" THEN FALSE
    ELSE IF Get(entry.trust_anchor, "type") = "self_signed" THEN TRUE
    ELSE IF Get(entry.trust_anchor, "public_key") # "" THEN JCS_verify("bytes", signed) = "true"
    ELSE FALSE

\* _append_log chaining each entry to the oldest retained one
append_log_from_oldest(lg, event_type, skill_ref, context) ==
    LET prev == IF lg # <<>>
                THEN SHA256(<<StrCode(lg[1].event_type, RegStrings),
                              StrCode(lg[1].skill_ref, RegStrings),
                              lg[1].sequence>>
                            \o lg[1].context
                            \o <<lg[1].prev_hash>>)
                ELSE GENESIS
        entry == [event_type |-> event_type, skill_ref |-> skill_ref,
                  sequence |-> Len(lg), context |-> context, prev_hash |-> prev]
        appended == Append(lg, entry)
    IN  IF Len(appended) > MAX_LOG
        THEN SubSeq(appended, Len(appended) - MAX_LOG + 1, Len(appended))
        ELSE appended

\* registry.py _append_log: the log after one append
append_log(lg, event_type, skill_ref, context) ==
    LET prev == IF lg # <<>>
                THEN SHA256(<<StrCode(lg[Len(lg)].event_type, RegStrings),
                              StrCode(lg[Len(lg)].skill_ref, RegStrings),
                              lg[Len(lg)].sequence>>
                            \o lg[Len(lg)].context
                            \o <<lg[Len(lg)].prev_hash>>)
                ELSE GENESIS
        entry == [event_type |-> event_type, skill_ref |-> skill_ref,
                  sequence |-> Len(lg), context |-> context, prev_hash |-> prev]
        appended == Append(lg, entry)
    IN  IF Len(appended) > MAX_LOG
        THEN SubSeq(appended, Len(appended) - MAX_LOG + 1, Len(appended))
        ELSE appended

\* position of skill_ref in the OrderedDict, 0 if absent
IndexOf(es, skill_ref) ==
    IF \E i \in 1..Len(es) : es[i].skill_ref = skill_ref
    THEN CHOOSE i \in 1..Len(es) : es[i].skill_ref = skill_ref
    ELSE 0

\* self._entries[skill_ref] = registry_entry (an existing key keeps its position)
SetItem(es, e) ==
    LET i == IndexOf(es, e.skill_ref)
    IN  IF i = 0 THEN Append(es, e) ELSE [es EXCEPT ![i] = e]

\* the checks of register before the revocation check, in source order;
\* "ok" when all pass
register_validation(entry, crypto, signed) ==
    IF entry.entry_type \notin ValidEntryTypes THEN "invalid_entry_type"
    ELSE IF entry.skill_ref = "" THEN "missing_skill_ref"
    ELSE IF entry.content_hash = 0 \/ entry.content_hash # 64 THEN "invalid_content_hash"
    ELSE IF entry.signature = "" THEN "missing_signature"
    ELSE IF ~verify_trust_chain(entry) THEN "trust_chain_failed"
    ELSE IF ~verify_signature(entry, crypto, signed) THEN "signature_failed"
    ELSE "ok"

\* register with the revocation check applied to REGISTER entries only
register_outcome_register_only(entry, crypto, signed, rvk) ==
    LET v == register_validation(entry, crypto, signed)
    IN  IF v # "ok" THEN v
        ELSE IF entry.skill_ref \in rvk /\ entry.entry_type = "REGISTER" THEN "revoked"
        ELSE "registered"

\* register without the revocation check
register_outcome_no_check(entry, crypto, signed, rvk) ==
    LET v == register_validation(entry, crypto, signed)
    IN  IF v # "ok" THEN v ELSE "registered"

\* what register returns: "registered" or the error it names
register_outcome(entry, crypto, signed, rvk) ==
    LET v == register_validation(entry, crypto, signed)
    IN  IF v # "ok" THEN v
        ELSE IF entry.skill_ref \in rvk THEN "revoked"
        ELSE "registered"

\* RegistryService.register(entry)
register(entry, crypto, signed) ==
    LET outcome == register_outcome(entry, crypto, signed, revoked)
        registry_entry == [skill_ref |-> entry.skill_ref,
                           entry_type |-> entry.entry_type,
                           signed_by |-> entry.signed_by,
                           status |-> "active", revoked_by |-> ""]
        kept == IF Len(entries) >= MAX_ENTRIES THEN Tail(entries) ELSE entries
    IN  /\ reg_result' = [op |-> "register", skill_ref |-> entry.skill_ref,
                          signed_by |-> "", outcome |-> outcome, admin_key |-> FALSE,
                          valid |-> (register_validation(entry, crypto, signed) = "ok")]
        /\ IF outcome = "signature_failed"
           THEN /\ log_appended < MaxRegLog
                /\ log' = append_log(log, "REGISTER_REJECTED", entry.skill_ref,
                                     <<StrCode("invalid_signature", RegStrings),
                                       StrCode(entry.signed_by, RegStrings)>>)
                /\ log_appended' = log_appended + 1
                /\ UNCHANGED <<entries, orig_signer>>
           ELSE IF outcome = "registered"
           THEN /\ log_appended < MaxRegLog
                /\ entries' = SetItem(kept, registry_entry)
                /\ log' = append_log(log, "REGISTERED", entry.skill_ref,
                                     <<StrCode(entry.entry_type, RegStrings),
                                       StrCode(entry.signed_by, RegStrings)>>)
                /\ log_appended' = log_appended + 1
                /\ orig_signer' = IF orig_signer[entry.skill_ref] = ""
                                  THEN [orig_signer EXCEPT ![entry.skill_ref] = entry.signed_by]
                                  ELSE orig_signer
           ELSE UNCHANGED <<entries, log, log_appended, orig_signer>>
        /\ UNCHANGED <<revoked, ever_revoked>>

\* what revoke returns
revoke_outcome(skill_ref, signed_by, admin_key) ==
    LET i == IndexOf(entries, skill_ref)
        is_admin == admin_key /\ signed_by = ADMIN
    IN  IF skill_ref = "" THEN "missing_skill_ref"
        ELSE IF i = 0 THEN "not_found"
        ELSE IF entries[i].signed_by # signed_by /\ ~is_admin THEN "unauthorized"
        ELSE "revoked"

\* revoke marking the skill as revoked before the authority check
revoke_marks_first(skill_ref, signed_by, admin_key) ==
    LET outcome == revoke_outcome(skill_ref, signed_by, admin_key)
        i == IndexOf(entries, skill_ref)
    IN  /\ reg_result' = [op |-> "revoke", skill_ref |-> skill_ref,
                          signed_by |-> signed_by, outcome |-> outcome,
                          admin_key |-> admin_key, valid |-> TRUE]
        /\ IF outcome = "revoked"
           THEN /\ log_appended < MaxRegLog
                /\ entries' = [entries EXCEPT ![i].status = "revoked",
                                              ![i].revoked_by = signed_by]
                /\ revoked' = revoked \cup {skill_ref}
                /\ ever_revoked' = ever_revoked \cup {skill_ref}
                /\ log' = append_log(log, "REVOKED", skill_ref,
                                     <<StrCode(signed_by, RegStrings)>>)
                /\ log_appended' = log_appended + 1
           ELSE IF outcome = "unauthorized"
           THEN /\ revoked' = revoked \cup {skill_ref}
                /\ ever_revoked' = ever_revoked \cup {skill_ref}
                /\ UNCHANGED <<entries, log, log_appended>>
           ELSE UNCHANGED <<entries, revoked, ever_revoked, log, log_appended>>
        /\ UNCHANGED orig_signer

\* RegistryService.revoke(skill_ref, signed_by)
revoke(skill_ref, signed_by, admin_key) ==
    LET outcome == revoke_outcome(skill_ref, signed_by, admin_key)
        i == IndexOf(entries, skill_ref)
    IN  /\ reg_result' = [op |-> "revoke", skill_ref |-> skill_ref,
                          signed_by |-> signed_by, outcome |-> outcome,
                          admin_key |-> admin_key, valid |-> TRUE]
        /\ IF outcome = "revoked"
           THEN /\ log_appended < MaxRegLog
                /\ entries' = [entries EXCEPT ![i].status = "revoked",
                                              ![i].revoked_by = signed_by]
                /\ revoked' = revoked \cup {skill_ref}
                /\ ever_revoked' = ever_revoked \cup {skill_ref}
                /\ log' = append_log(log, "REVOKED", skill_ref,
                                     <<StrCode(signed_by, RegStrings)>>)
                /\ log_appended' = log_appended + 1
           ELSE UNCHANGED <<entries, revoked, ever_revoked, log, log_appended>>
        /\ UNCHANGED orig_signer

(***************************************************************************)
(*                              DELIVERY                                   *)
(***************************************************************************)
Keys == {"K1", "K2"}
TTLs == {0, 5}                  \* ttl_seconds passed to execute_with_contract
IssueTTLs == {5}                \* ttl_seconds passed to issue_contract
MaxRetriesInputs == {0, 1}      \* max_retries passed to issue_contract
Results == {"r1", "r2"}         \* values execute_fn returns
SKILL == "org.calc"

DelStrings == <<"", "K1", "K2", "org.calc", "r1", "r2", "rejected",
                "CONTRACT_ISSUED", "REJECTED_DEGRADATION", "IDEMPOTENT_RETURN",
                "CONTRACT_EXPIRED", "EXECUTION_SUCCESS", "EXECUTION_RETRY",
                "EXECUTION_FAILED", "already_executed", "D3_CRITICAL_LOAD_SHEDDING",
                "error">>

NoContract ==
    [skill_ref |-> "", ttl_seconds |-> 0, freshness |-> "", issued_at |-> 0,
     expires_at |-> 0, max_retries |-> 0, idempotency_key |-> "",
     retries_used |-> 0, execution_result |-> "None", execution_status |-> ""]

\* _compute_freshness with "ratio <= 0.8" as the fresh range
compute_freshness_stale_inclusive(contract, t) ==
    LET total_ttl == contract.expires_at - contract.issued_at
        elapsed == t - contract.issued_at
    IN  IF t >= contract.expires_at THEN "expired"
        ELSE IF total_ttl <= 0 THEN "expired"
        ELSE IF elapsed * 10 <= 8 * total_ttl THEN "fresh"
        ELSE "stale"

\* delivery.py _compute_freshness at wall-clock time t; ratio = elapsed / total_ttl
\* is compared with 0.8 exactly (elapsed * 10 < 8 * total_ttl)
compute_freshness(contract, t) ==
    LET total_ttl == contract.expires_at - contract.issued_at
        elapsed == t - contract.issued_at
    IN  IF t >= contract.expires_at THEN "expired"
        ELSE IF total_ttl <= 0 THEN "expired"
        ELSE IF elapsed * 10 < 8 * total_ttl THEN "fresh"
        ELSE "stale"

\* str(entry) of a proof entry, as the sequence of its fields.  The timestamp
\* and latency_ms fields are opaque payload that no code path reads back; they
\* are not represented.
serialize_proof(e) ==
    <<StrCode(e.event_type, DelStrings), StrCode(e.idempotency_key, DelStrings),
      e.sequence>> \o e.context \o <<e.prev_hash>>

\* the hash chain link computed from the oldest retained entry
chain_hash_oldest(lg) ==
    IF lg # <<>> THEN SHA256(serialize_proof(lg[1])) ELSE GENESIS

\* delivery.py _append_proof, the hash chain link: hash of self._proof_log[-1]
chain_hash(lg) ==
    IF lg # <<>> THEN SHA256(serialize_proof(lg[Len(lg)])) ELSE GENESIS

\* delivery.py _append_proof on P = [log, hist]: the retained log after the
\* append and eviction, and the record of everything appended
append_proof(P, event_type, idempotency_key, context, t) ==
    LET entry == [event_type |-> event_type, idempotency_key |-> idempotency_key,
                  sequence |-> Len(P.log), context |-> context,
                  prev_hash |-> chain_hash(P.log)]
        appended == Append(P.log, entry)
    IN  [log |-> IF Len(appended) > MAX_PROOF_LOG
                 THEN SubSeq(appended, Len(appended) - MAX_PROOF_LOG + 1, Len(appended))
                 ELSE appended,
         hist |-> Append(P.hist, entry)]

\* position of key in the OrderedDict, 0 if absent
KeyIndex(cs, key) ==
    IF \E i \in 1..Len(cs) : cs[i].idempotency_key = key
    THEN CHOOSE i \in 1..Len(cs) : cs[i].idempotency_key = key
    ELSE 0

\* self._contracts[key] = contract (an existing key keeps its position)
SetContract(cs, c) ==
    LET i == KeyIndex(cs, c.idempotency_key)
    IN  IF i = 0 THEN Append(cs, c) ELSE [cs EXCEPT ![i] = c]

\* issue_contract that reuses a stored contract only while it is fresh
issue_contract_fresh_only(cs, P, skill_ref, ttl_seconds, max_retries, key, t) ==
    LET i == KeyIndex(cs, key)
        hit == i # 0 /\ compute_freshness(cs[i], t) = "fresh"
        contract == [skill_ref |-> skill_ref, ttl_seconds |-> ttl_seconds,
                     freshness |-> "fresh", issued_at |-> t,
                     expires_at |-> t + ttl_seconds, max_retries |-> max_retries,
                     idempotency_key |-> key, retries_used |-> 0,
                     execution_result |-> "None", execution_status |-> "pending"]
        kept == IF Len(cs) >= MAX_CONTRACTS THEN Tail(cs) ELSE cs
    IN  IF hit
        THEN [contracts |-> [cs EXCEPT ![i].freshness = compute_freshness(cs[i], t)],
              proof |-> P, created |-> FALSE]
        ELSE [contracts |-> SetContract(kept, contract),
              proof |-> append_proof(P, "CONTRACT_ISSUED", key,
                                     <<StrCode(skill_ref, DelStrings), ttl_seconds>>, t),
              created |-> TRUE]

\* DeliveryContractEnforcer.issue_contract at time t: the contracts map and
\* the proof log after the call
issue_contract(cs, P, skill_ref, ttl_seconds, max_retries, key, t) ==
    LET i == KeyIndex(cs, key)
        hit == i # 0 /\ compute_freshness(cs[i], t) # "expired"
        contract == [skill_ref |-> skill_ref, ttl_seconds |-> ttl_seconds,
                     freshness |-> "fresh", issued_at |-> t,
                     expires_at |-> t + ttl_seconds, max_retries |-> max_retries,
                     idempotency_key |-> key, retries_used |-> 0,
                     execution_result |-> "None", execution_status |-> "pending"]
        kept == IF Len(cs) >= MAX_CONTRACTS THEN Tail(cs) ELSE cs
    IN  IF hit
        THEN [contracts |-> [cs EXCEPT ![i].freshness = compute_freshness(cs[i], t)],
              proof |-> P, created |-> FALSE]
        ELSE [contracts |-> SetContract(kept, contract),
              proof |-> append_proof(P, "CONTRACT_ISSUED", key,
                                     <<StrCode(skill_ref, DelStrings), ttl_seconds>>, t),
              created |-> TRUE]

\* the retry loop with one attempt too many
more_attempts_one_extra(attempt, max_retries) == attempt + 1 < max_retries + 2

\* for attempt in range(max_retries + 1): another attempt follows this one
more_attempts(attempt, max_retries) == attempt + 1 < max_retries + 1

\* event types of the entries appended between two states of the record
NewEvents(before, after) ==
    [k \in 1..(Len(after) - Len(before)) |-> after[Len(before) + k].event_type]

\* what the call finds stored under its key when it starts (observer)
Found(cs, key, t) ==
    LET i == KeyIndex(cs, key)
    IN  IF i = 0 THEN [state |-> "absent", status |-> "", issued_at |-> 0]
        ELSE [state |-> IF t >= cs[i].expires_at THEN "expired" ELSE "live",
              status |-> cs[i].execution_status, issued_at |-> cs[i].issued_at]

\* the refusal leaving no entry in the proof log
rejected_degradation_unlogged(P, key, t) == P

\* execute_with_contract, the refusal of a request that the degradation
\* controller does not allow: the proof log after it
rejected_degradation(P, key, t) ==
    append_proof(P, "REJECTED_DEGRADATION", key,
                 <<StrCode(SKILL, DelStrings),
                   StrCode("D3_CRITICAL_LOAD_SHEDDING", DelStrings)>>, t)

\* execute_with_contract up to the first invocation of execute_fn
execute_begin(key, ttl_seconds, admitted) ==
    LET P0 == [log |-> proof_log, hist |-> proof_hist]
        iss == issue_contract(contracts, P0, SKILL, ttl_seconds, DEFAULT_MAX_RETRIES,
                              key, now)
        i == KeyIndex(iss.contracts, key)
        contract == iss.contracts[i]
        freshness == compute_freshness(contract, now)
        validated == [iss.contracts EXCEPT ![i].freshness = freshness]
        frame == [key |-> key, attempt |-> 0, invocations |-> 0, events |-> <<>>,
                  admitted |-> admitted,
                  max_retries |-> IF admitted THEN contract.max_retries ELSE 0,
                  prev |-> [kind |-> del_result.kind, key |-> del_result.key,
                            result |-> del_result.result,
                            issued_at |-> del_result.contract.issued_at],
                  found |-> Found(contracts, key, now)]
        P == IF ~admitted
             THEN rejected_degradation(P0, key, now)
             ELSE IF contract.execution_status = "completed"
             THEN append_proof(iss.proof, "IDEMPOTENT_RETURN", key,
                               <<StrCode("already_executed", DelStrings)>>, now)
             ELSE IF freshness = "expired"
             THEN append_proof(iss.proof, "CONTRACT_EXPIRED", key,
                               <<StrCode(SKILL, DelStrings)>>, now)
             ELSE iss.proof
    IN  /\ pc = "idle"
        /\ Len(P.hist) <= MaxProofs
        /\ proof_log' = P.log
        /\ proof_hist' = P.hist
        /\ IF ~admitted
           THEN /\ contracts' = contracts
                /\ pc' = "idle"
                /\ call' = [frame EXCEPT !.events = NewEvents(proof_hist, P.hist)]
                /\ del_result' = [kind |-> "rejected", key |-> key, result |-> "None",
                                  contract |-> NoContract, at |-> now]
           ELSE IF contract.execution_status = "completed"
           THEN /\ contracts' = iss.contracts
                /\ pc' = "idle"
                /\ call' = [frame EXCEPT !.events = NewEvents(proof_hist, P.hist)]
                /\ del_result' = [kind |-> "idempotent", key |-> key,
                                  result |-> contract.execution_result,
                                  contract |-> contract, at |-> now]
           ELSE IF freshness = "expired"
           THEN /\ contracts' = validated
                /\ pc' = "idle"
                /\ call' = [frame EXCEPT !.events = NewEvents(proof_hist, P.hist)]
                /\ del_result' = [kind |-> "expired", key |-> key, result |-> "None",
                                  contract |-> validated[i], at |-> now]
           ELSE /\ contracts' = validated
                /\ pc' = "in_fn"
                /\ call' = [frame EXCEPT !.events = NewEvents(proof_hist, P.hist),
                                         !.invocations = 1]
                /\ del_result' = del_result
        /\ UNCHANGED now

\* execute_fn returns result: the success branch of the retry loop
fn_return(result) ==
    LET i == KeyIndex(contracts, call.key)
        done == [contracts EXCEPT ![i].execution_result = result,
                                  ![i].execution_status = "completed",
                                  ![i].freshness =
                                      compute_freshness([contracts[i] EXCEPT
                                          !.execution_result = result,
                                          !.execution_status = "completed"], now)]
        P == append_proof([log |-> proof_log, hist |-> proof_hist],
                          "EXECUTION_SUCCESS", call.key,
                          <<StrCode(SKILL, DelStrings), call.attempt + 1>>,
                          now)
    IN  /\ pc = "in_fn"
        /\ Len(P.hist) <= MaxProofs
        /\ contracts' = done
        /\ proof_log' = P.log
        /\ proof_hist' = P.hist
        /\ pc' = "idle"
        /\ call' = [call EXCEPT !.events = call.events \o NewEvents(proof_hist, P.hist)]
        /\ del_result' = [kind |-> "success", key |-> call.key, result |-> result,
                          contract |-> done[i], at |-> now]
        /\ UNCHANGED now

\* execute_fn raises: the except branch, then the next attempt or exhaustion
fn_raise ==
    LET i == KeyIndex(contracts, call.key)
        retried == [contracts EXCEPT ![i].retries_used = call.attempt + 1]
        P1 == append_proof([log |-> proof_log, hist |-> proof_hist],
                           "EXECUTION_RETRY", call.key,
                           <<StrCode(SKILL, DelStrings), call.attempt + 1,
                             StrCode("error", DelStrings)>>, now)
        again == more_attempts(call.attempt, contracts[i].max_retries)
        failed == [retried EXCEPT ![i].execution_status = "failed"]
        P == IF again THEN P1
             ELSE append_proof(P1, "EXECUTION_FAILED", call.key,
                               <<StrCode(SKILL, DelStrings), contracts[i].max_retries + 1,
                                 StrCode("error", DelStrings)>>, now)
    IN  /\ pc = "in_fn"
        /\ Len(P.hist) <= MaxProofs
        /\ proof_log' = P.log
        /\ proof_hist' = P.hist
        /\ IF again
           THEN /\ contracts' = retried
                /\ pc' = "in_fn"
                /\ call' = [call EXCEPT !.attempt = call.attempt + 1,
                                        !.invocations = call.invocations + 1,
                                        !.events = call.events
                                                   \o NewEvents(proof_hist, P.hist)]
                /\ del_result' = del_result
           ELSE /\ contracts' = failed
                /\ pc' = "idle"
                /\ call' = [call EXCEPT !.events = call.events
                                                   \o NewEvents(proof_hist, P.hist)]
                /\ del_result' = [kind |-> "failed", key |-> call.key, result |-> "None",
                                  contract |-> failed[i], at |-> now]
        /\ UNCHANGED now

NoResult ==
    [kind |-> "none", key |-> "", result |-> "None", contract |-> NoContract, at |-> 0]

\* The state after RegistryService() and DeliveryContractEnforcer() are
\* constructed: empty maps and logs, no call in progress.
Init ==
    /\ entries = <<>>
    /\ log = <<>>
    /\ revoked = {}
    /\ reg_result = [op |-> "none", skill_ref |-> "", signed_by |-> "",
                     outcome |-> "none", admin_key |-> FALSE, valid |-> FALSE]
    /\ ever_revoked = {}
    /\ orig_signer = [s \in Skills |-> ""]
    /\ log_appended = 0
    /\ now = 0
    /\ contracts = <<>>
    /\ proof_log = <<>>
    /\ pc = "idle"
    /\ call = [key |-> "", attempt |-> 0, invocations |-> 0, events |-> <<>>,
               admitted |-> TRUE, max_retries |-> 0,
               prev |-> [kind |-> "none", key |-> "", result |-> "None", issued_at |-> 0],
               found |-> [state |-> "absent", status |-> "", issued_at |-> 0]]
    /\ del_result = NoResult
    /\ proof_hist = <<>>
    /\ fr_seen = [at |-> 0, prev |-> "fresh"]
    /\ thr = [t \in {"t1", "t2"} |->
                 [pc |-> "idle",
                  entry |-> [event_type |-> "", idempotency_key |-> "", sequence |-> 0,
                             context |-> <<>>, prev_hash |-> 0],
                  kept |-> <<>>]]
    /\ current_level = D0_NORMAL
    /\ monitoring = FALSE
    /\ high_load_ticks = 0
    /\ normal_load_ticks = 0
    /\ trail = <<>>
    /\ manual = FALSE
    /\ sampled = [kind |-> "same", count |-> 0, targets |-> {}, last |-> D0_NORMAL,
                  from |-> D0_NORMAL, to |-> D0_NORMAL]
    /\ route_cache = <<>>
    /\ routed = [query |-> <<>>, pool |-> <<>>, skip_semantic |-> FALSE,
                 safety |-> "", embedder |-> "", installed |-> "unknown",
                 result |-> [kind |-> "none", reason_code |-> "", skill_ref |-> "",
                             decision_stability |-> "", tie_break_applied |-> FALSE,
                             approximate |-> FALSE, safety_clearance |-> "",
                             trace_events |-> <<>>, ran |-> {}]]
    /\ lru = <<>>
    /\ verifier = [configured |-> TRUE, enforce |-> FALSE, public_key |-> TRUE]
    /\ rpc = [handled |-> FALSE, level |-> D0_NORMAL, signature |-> "", body |-> "",
              method |-> "", dispatch |-> FALSE, status |-> 0, invoked |-> {},
              served |-> 0]
    /\ degradation_controller = TRUE
    /\ active_sessions = {}
    /\ agent = [pc |-> "idle", handled |-> FALSE, session_id |-> "", error |-> "",
                level |-> D0_NORMAL,
                should_use_llm |-> TRUE, llm_called |-> FALSE, target_skill_id |-> "",
                result |-> ""]
    /\ rate_limits = [client_ip \in Clients |-> <<>>]
    /\ clock = 0
    /\ let_through = [client_ip \in Clients |-> <<>>]
    /\ callers = [t \in {"t1", "t2"} |-> [pc |-> "idle", calls |-> 0, returned |-> "none"]]
    /\ fn_invocations = 0
    /\ shared_cache = {}
    /\ shared_order = <<>>
    /\ routers = [t \in {"t1", "t2"} |-> [pc |-> "idle", key |-> "", oldest |-> "", calls |-> 0]]
    /\ route_error = ""
    /\ lexical_history = <<>>
    /\ semantic_history = <<>>
    /\ safety_checked = [prefilter |-> "", classified |-> "", risk_score |-> 0,
                         risk_level |-> "", reason_code |-> "", appended |-> FALSE,
                         anomaly |-> FALSE]
    /\ monitor_write = [pending |-> FALSE, kind |-> "same", target |-> D0_NORMAL]
    /\ loops = [id \in 1..MaxLoops |-> "unborn"]
    /\ monitor_thread = 0
    /\ stop_event = "none"
    /\ joining = FALSE
    /\ wanted = [stopped |-> FALSE, start |-> FALSE]

\* The environment of one register call: whether osp_core.crypto imports, and
\* whether the signature is genuine.  Both are enumerated only where the code
\* reads them.
Register ==
    \E entry \in RegisterInputs :
        \E crypto \in (IF Get(entry.trust_anchor, "type") \notin {"", "self_signed"}
                       THEN BOOLEAN ELSE {TRUE}) :
            \E signed \in (IF crypto /\ Get(entry.trust_anchor, "public_key") # ""
                           THEN SignatureStates ELSE {"genuine"}) :
                register(entry, crypto, signed) /\ UNCHANGED notReg

\* admin_key: os.environ.get("OSP_ADMIN_KEY") is set (non-empty) at the call
Revoke ==
    \E skill_ref \in Skills \cup {""}, signed_by \in Revokers, admin_key \in BOOLEAN :
        revoke(skill_ref, signed_by, admin_key) /\ UNCHANGED notReg

RegNext == Register \/ Revoke

SpecRegistry == Init /\ [][RegNext]_vars

\* time passes (also while execute_fn runs); the clock is observed at the
\* instants 0, 4, 5, 9, 10, ... so that a contract of ttl 5 issued at a
\* multiple of 5 is seen fresh, stale and expired
Tick ==
    /\ now < MaxTime
    /\ now' = IF now % 5 = 0 THEN now + 4 ELSE now + 1
    /\ UNCHANGED <<contracts, proof_log, pc, call, del_result, proof_hist, notDel>>

\* a caller of the public issue_contract
IssueContract ==
    \E key \in Keys, ttl_seconds \in IssueTTLs, max_retries \in MaxRetriesInputs :
        LET iss == issue_contract(contracts, [log |-> proof_log, hist |-> proof_hist],
                                  SKILL, ttl_seconds, max_retries, key, now)
        IN  /\ pc = "idle"
            /\ Len(iss.proof.hist) <= MaxProofs
            /\ contracts' = iss.contracts
            /\ proof_log' = iss.proof.log
            /\ proof_hist' = iss.proof.hist
            /\ UNCHANGED <<now, pc, call, del_result, notDel>>

\* admitted is FALSE when a degradation controller is passed and refuses
ExecuteBegin ==
    \E key \in Keys, ttl_seconds \in TTLs, admitted \in BOOLEAN :
        execute_begin(key, ttl_seconds, admitted) /\ UNCHANGED notDel

FnReturn == \E result \in Results : fn_return(result) /\ UNCHANGED notDel

FnRaise == fn_raise /\ UNCHANGED notDel

DelNext == Tick \/ IssueContract \/ ExecuteBegin \/ FnReturn \/ FnRaise

SpecDelivery == Init /\ [][DelNext]_vars

\* Freshness lifecycle of one contract: issued at any time with any ttl > 0,
\* then validated (validate_contract) at arbitrary later times.
FrInit ==
    /\ entries = <<>>
    /\ log = <<>>
    /\ revoked = {}
    /\ reg_result = [op |-> "none", skill_ref |-> "", signed_by |-> "",
                     outcome |-> "none", admin_key |-> FALSE, valid |-> FALSE]
    /\ ever_revoked = {}
    /\ orig_signer = [s \in Skills |-> ""]
    /\ log_appended = 0
    /\ now \in 0..MaxIssuedAt
    /\ \E ttl_seconds \in 1..MaxTtl :
          LET iss == issue_contract(<<>>, [log |-> <<>>, hist |-> <<>>], SKILL,
                                    ttl_seconds, DEFAULT_MAX_RETRIES, "K1", now)
          IN  /\ contracts = iss.contracts
              /\ proof_log = iss.proof.log
              /\ proof_hist = iss.proof.hist
    /\ pc = "idle"
    /\ call = [key |-> "", attempt |-> 0, invocations |-> 0, events |-> <<>>,
               admitted |-> TRUE, max_retries |-> 0,
               prev |-> [kind |-> "none", key |-> "", result |-> "None", issued_at |-> 0],
               found |-> [state |-> "absent", status |-> "", issued_at |-> 0]]
    /\ del_result = NoResult
    /\ fr_seen = [at |-> now, prev |-> "fresh"]
    /\ thr = [t \in {"t1", "t2"} |->
                 [pc |-> "idle",
                  entry |-> [event_type |-> "", idempotency_key |-> "", sequence |-> 0,
                             context |-> <<>>, prev_hash |-> 0],
                  kept |-> <<>>]]
    /\ current_level = D0_NORMAL
    /\ monitoring = FALSE
    /\ high_load_ticks = 0
    /\ normal_load_ticks = 0
    /\ trail = <<>>
    /\ manual = FALSE
    /\ sampled = [kind |-> "same", count |-> 0, targets |-> {}, last |-> D0_NORMAL,
                  from |-> D0_NORMAL, to |-> D0_NORMAL]
    /\ route_cache = <<>>
    /\ routed = [query |-> <<>>, pool |-> <<>>, skip_semantic |-> FALSE,
                 safety |-> "", embedder |-> "", installed |-> "unknown",
                 result |-> [kind |-> "none", reason_code |-> "", skill_ref |-> "",
                             decision_stability |-> "", tie_break_applied |-> FALSE,
                             approximate |-> FALSE, safety_clearance |-> "",
                             trace_events |-> <<>>, ran |-> {}]]
    /\ lru = <<>>
    /\ verifier = [configured |-> TRUE, enforce |-> FALSE, public_key |-> TRUE]
    /\ rpc = [handled |-> FALSE, level |-> D0_NORMAL, signature |-> "", body |-> "",
              method |-> "", dispatch |-> FALSE, status |-> 0, invoked |-> {},
              served |-> 0]
    /\ degradation_controller = TRUE
    /\ active_sessions = {}
    /\ agent = [pc |-> "idle", handled |-> FALSE, session_id |-> "", error |-> "",
                level |-> D0_NORMAL,
                should_use_llm |-> TRUE, llm_called |-> FALSE, target_skill_id |-> "",
                result |-> ""]
    /\ rate_limits = [client_ip \in Clients |-> <<>>]
    /\ clock = 0
    /\ let_through = [client_ip \in Clients |-> <<>>]
    /\ callers = [t \in {"t1", "t2"} |-> [pc |-> "idle", calls |-> 0, returned |-> "none"]]
    /\ fn_invocations = 0
    /\ shared_cache = {}
    /\ shared_order = <<>>
    /\ routers = [t \in {"t1", "t2"} |-> [pc |-> "idle", key |-> "", oldest |-> "", calls |-> 0]]
    /\ route_error = ""
    /\ lexical_history = <<>>
    /\ semantic_history = <<>>
    /\ safety_checked = [prefilter |-> "", classified |-> "", risk_score |-> 0,
                         risk_level |-> "", reason_code |-> "", appended |-> FALSE,
                         anomaly |-> FALSE]
    /\ monitor_write = [pending |-> FALSE, kind |-> "same", target |-> D0_NORMAL]
    /\ loops = [id \in 1..MaxLoops |-> "unborn"]
    /\ monitor_thread = 0
    /\ stop_event = "none"
    /\ joining = FALSE
    /\ wanted = [stopped |-> FALSE, start |-> FALSE]

FrTick ==
    /\ now < MaxIssuedAt + MaxTtl + 1
    /\ now' = now + 1
    /\ UNCHANGED <<contracts, proof_log, pc, call, del_result, proof_hist, notDel>>

\* DeliveryContractEnforcer.validate_contract(contract) on the stored contract
ValidateContract ==
    /\ contracts' = [contracts EXCEPT ![1].freshness = compute_freshness(contracts[1], now)]
    /\ fr_seen' = [at |-> now, prev |-> contracts[1].freshness]
    /\ UNCHANGED <<now, proof_log, pc, call, del_result, proof_hist>>
    /\ UNCHANGED <<regVars, thrVars, degVars, rtVars, srvVars, agVars, rlVars, conVars>>

FrNext == FrTick \/ ValidateContract

SpecFreshness == FrInit /\ [][FrNext]_vars

(***************************************************************************)
(* _append_proof called from several threads on one enforcer.  The method  *)
(* takes no lock, so a thread switch can fall between any two of its       *)
(* statements; each statement that reads or writes self._proof_log is one  *)
(* step.                                                                   *)
(***************************************************************************)
Threads == {"t1", "t2"}

ThreadEvents == {"CONTRACT_ISSUED", "EXECUTION_SUCCESS"}

notThr == <<regVars, frVars, degVars, rtVars, srvVars, agVars, rlVars, conVars, now, contracts, pc, call,
           del_result>>

\* entry = {..., "sequence": len(self._proof_log), ...}
AppendBuild(t) ==
    \E event_type \in ThreadEvents :
        /\ thr[t].pc = "idle"
        /\ Len(proof_hist) + Cardinality({u \in Threads : thr[u].pc \in {"built", "linked"}})
               < MaxThreadAppends
        /\ thr' = [thr EXCEPT ![t].pc = "built",
                              ![t].entry = [event_type |-> event_type,
                                            idempotency_key |-> "K1",
                                            sequence |-> Len(proof_log),
                                            context |-> <<>>,
                                            prev_hash |-> GENESIS]]
        /\ UNCHANGED <<proof_log, proof_hist, notThr>>

\* entry["prev_hash"] = sha256(str(self._proof_log[-1])) or the genesis hash
AppendLink(t) ==
    /\ thr[t].pc = "built"
    /\ thr' = [thr EXCEPT ![t].pc = "linked",
                          ![t].entry.prev_hash = chain_hash(proof_log)]
    /\ UNCHANGED <<proof_log, proof_hist, notThr>>

\* self._proof_log.append(entry)
AppendStore(t) ==
    /\ thr[t].pc = "linked"
    /\ proof_log' = Append(proof_log, thr[t].entry)
    /\ proof_hist' = Append(proof_hist, thr[t].entry)
    /\ thr' = [thr EXCEPT ![t].pc = "stored"]
    /\ UNCHANGED notThr

\* if len(self._proof_log) > MAX_PROOF_LOG: evaluate self._proof_log[-MAX_PROOF_LOG:]
AppendSlice(t) ==
    /\ thr[t].pc = "stored"
    /\ IF Len(proof_log) > MAX_PROOF_LOG
       THEN thr' = [thr EXCEPT ![t].pc = "sliced",
                               ![t].kept = SubSeq(proof_log,
                                                  Len(proof_log) - MAX_PROOF_LOG + 1,
                                                  Len(proof_log))]
       ELSE thr' = [thr EXCEPT ![t].pc = "idle"]
    /\ UNCHANGED <<proof_log, proof_hist, notThr>>

\* self._proof_log = (the slice)
AppendEvict(t) ==
    /\ thr[t].pc = "sliced"
    /\ proof_log' = thr[t].kept
    /\ thr' = [thr EXCEPT ![t].pc = "idle", ![t].kept = <<>>]
    /\ UNCHANGED <<proof_hist, notThr>>

ThreadBuild == \E t \in Threads : AppendBuild(t)

ThreadLink == \E t \in Threads : AppendLink(t)

ThreadStore == \E t \in Threads : AppendStore(t)

ThreadSlice == \E t \in Threads : AppendSlice(t)

ThreadEvict == \E t \in Threads : AppendEvict(t)

ThrNext == ThreadBuild \/ ThreadLink \/ ThreadStore \/ ThreadSlice \/ ThreadEvict

SpecProofThreads == Init /\ [][ThrNext]_vars

(***************************************************************************)
(* DegradationController (degradation.py).  A level is the value of its    *)
(* DegradationLevel member.                                                *)
(***************************************************************************)
Levels == {D0_NORMAL, D1_REDUCED_INTELLIGENCE, D2_MINIMAL, D3_CRITICAL}

\* psutil readings (percent) around the thresholds of _monitor_loop
CpuSamples == {50, 51, 80, 81, 95, 96}

RamSamples == {60, 61, 85, 86, 95, 96}

\* number of samples the trail keeps
TrailLen == 4

check_request_allowed(level) == IF level = D3_CRITICAL THEN FALSE ELSE TRUE

\* should_use_llm answering up to D1_REDUCED_INTELLIGENCE
should_use_llm_reduced(level) == level <= D1_REDUCED_INTELLIGENCE

should_use_llm(level) == level = D0_NORMAL

\* is_strict_routing_only answering only at D3_CRITICAL
is_strict_routing_only_critical(level) == level >= D3_CRITICAL

is_strict_routing_only(level) == level >= D2_MINIMAL

\* set_level: assigns when the level differs (the log line has no effect on state)
set_level(level, new_level) == IF level # new_level THEN new_level ELSE level

\* _monitor_loop, "Determine Target State"
target_level(cpu, ram) ==
    IF cpu > 95 \/ ram > 95 THEN D3_CRITICAL
    ELSE IF cpu > 80 \/ ram > 85 THEN D2_MINIMAL
    ELSE IF cpu > 50 \/ ram > 60 THEN D1_REDUCED_INTELLIGENCE
    ELSE D0_NORMAL

\* the hysteresis logic keeping high_load_ticks after an escalation
hysteresis_keep_high(level, high, normal, target) ==
    IF target > level
    THEN IF high + 1 >= ESCALATION_THRESHOLD
         THEN [level |-> set_level(level, target), high |-> high + 1, normal |-> 0]
         ELSE [level |-> level, high |-> high + 1, normal |-> 0]
    ELSE IF target < level
    THEN IF normal + 1 >= RECOVERY_THRESHOLD
         THEN [level |-> set_level(level, target), high |-> 0, normal |-> 0]
         ELSE [level |-> level, high |-> 0, normal |-> normal + 1]
    ELSE [level |-> level, high |-> 0, normal |-> 0]

\* the hysteresis logic whose stable branch leaves the counters alone
hysteresis_stable_keeps(level, high, normal, target) ==
    IF target > level
    THEN IF high + 1 >= ESCALATION_THRESHOLD
         THEN [level |-> set_level(level, target), high |-> 0, normal |-> 0]
         ELSE [level |-> level, high |-> high + 1, normal |-> 0]
    ELSE IF target < level
    THEN IF normal + 1 >= RECOVERY_THRESHOLD
         THEN [level |-> set_level(level, target), high |-> 0, normal |-> 0]
         ELSE [level |-> level, high |-> 0, normal |-> normal + 1]
    ELSE [level |-> level, high |-> high, normal |-> normal]

\* the hysteresis logic moving one level at a time
hysteresis_stepwise(level, high, normal, target) ==
    IF target > level
    THEN IF high + 1 >= ESCALATION_THRESHOLD
         THEN [level |-> set_level(level, level + 1), high |-> 0, normal |-> 0]
         ELSE [level |-> level, high |-> high + 1, normal |-> 0]
    ELSE IF target < level
    THEN IF normal + 1 >= RECOVERY_THRESHOLD
         THEN [level |-> set_level(level, level - 1), high |-> 0, normal |-> 0]
         ELSE [level |-> level, high |-> 0, normal |-> normal + 1]
    ELSE [level |-> level, high |-> 0, normal |-> 0]

\* _monitor_loop, "Hysteresis Logic": the level and the two counters after
\* one sample with the given target
hysteresis(level, high, normal, target) ==
    IF target > level
    THEN IF high + 1 >= ESCALATION_THRESHOLD
         THEN [level |-> set_level(level, target), high |-> 0, normal |-> 0]
         ELSE [level |-> level, high |-> high + 1, normal |-> 0]
    ELSE IF target < level
    THEN IF normal + 1 >= RECOVERY_THRESHOLD
         THEN [level |-> set_level(level, target), high |-> 0, normal |-> 0]
         ELSE [level |-> level, high |-> 0, normal |-> normal + 1]
    ELSE [level |-> level, high |-> 0, normal |-> 0]

\* the trail with one more sample, cut to its last TrailLen entries
Record(tr, e) ==
    LET a == Append(tr, e)
    IN  IF Len(a) > TrailLen THEN SubSeq(a, Len(a) - TrailLen + 1, Len(a)) ELSE a

\* DegradationController.set_level called by an operator or a test
SetLevel ==
    \E level \in Levels :
        /\ current_level' = set_level(current_level, level)
        /\ manual' = TRUE
        /\ UNCHANGED <<monitoring, high_load_ticks, normal_load_ticks, trail, sampled, notDeg>>

\* start_monitoring with psutil installed: a new _monitor_loop with fresh counters
StartMonitoring ==
    /\ ~monitoring
    /\ monitoring' = TRUE
    /\ high_load_ticks' = 0
    /\ normal_load_ticks' = 0
    /\ trail' = <<>>
    /\ manual' = FALSE
    /\ sampled' = [kind |-> "same", count |-> 0, targets |-> {}, last |-> D0_NORMAL,
                   from |-> D0_NORMAL, to |-> D0_NORMAL]
    /\ UNCHANGED <<current_level, notDeg>>

\* stop_monitoring: the loop ends at its next test of the stop event
StopMonitoring ==
    /\ monitoring
    /\ monitoring' = FALSE
    /\ UNCHANGED <<current_level, high_load_ticks, normal_load_ticks, trail, manual, sampled,
                   notDeg>>

\* one iteration of _monitor_loop that obtains a sample
MonitorSample ==
    \E cpu \in CpuSamples, ram \in RamSamples :
        LET target == target_level(cpu, ram)
            h == hysteresis(current_level, high_load_ticks, normal_load_ticks, target)
            kind == IF target > current_level THEN "up"
                    ELSE IF target < current_level THEN "down" ELSE "same"
        IN  /\ monitoring
            /\ current_level' = h.level
            /\ high_load_ticks' = h.high
            /\ normal_load_ticks' = h.normal
            /\ trail' = Record(trail, [kind |-> kind, changed |-> h.level # current_level,
                                       manual |-> manual])
            /\ manual' = FALSE
            /\ UNCHANGED <<monitoring, sampled, notDeg>>

\* one iteration in which psutil raises: the except branch logs and sleeps
MonitorError ==
    /\ monitoring
    /\ UNCHANGED <<degVars, notDeg>>

DegNext == SetLevel \/ StartMonitoring \/ StopMonitoring \/ MonitorSample \/ MonitorError

SpecDegradation == Init /\ [][DegNext]_vars

(***************************************************************************)
(* RouterService (routing.py).  A query is the sequence of its characters. *)
(* The scores a candidate gets from the BM25 scorer and from the embedder  *)
(* for the query at hand are given with the candidate, in hundredths.      *)
(***************************************************************************)
OVERRIDE == <<"@", "o", "v", "e", "r", "r", "i", "d", "e">>

Queries ==
    { <<>>,
      <<" ", " ">>,
      <<"x", "x", " ">>,
      <<"@", "O", "V", "E", "R", "R", "I", "D", "E">>,
      OVERRIDE \o <<" ", "x">>,
      <<"x">> \o OVERRIDE,
      <<"x", "x">> \o OVERRIDE,
      <<" ", " ", " ", " ", " ", " ", " ", " ", " ", " ">> \o OVERRIDE }

\* skill ids in UTF-8 byte order
SkillIds == <<"org.admin", "org.calc", "org.weather">>

Candidate(id, ref, bm25, semantic, risk) ==
    [skill_id |-> id, skill_ref |-> ref, bm25 |-> bm25, semantic |-> semantic,
     risk_level |-> risk, safety_clearance |-> "allow", combined |-> 0]

Pools ==
    { <<>>,
      <<Candidate("org.admin", "", 0, 0, "HIGH")>>,
      <<Candidate("org.weather", "ref.weather", 100, 20, "HIGH"),
        Candidate("org.calc", "", 300, 10, "LOW")>> }

\* what the safety layers find in the query at hand: nothing, a match of the
\* SQL prefilter, a classifier score in the blocking band, or the classifier
\* raises
SafetyOutcomes == {"pass", "sql", "blocked", "raises"}

EmbedderStates == {"loaded", "missing", "raises"}

NoRoute ==
    [kind |-> "none", reason_code |-> "", skill_ref |-> "", decision_stability |-> "",
     tie_break_applied |-> FALSE, approximate |-> FALSE, safety_clearance |-> "",
     trace_events |-> <<>>, ran |-> {}]

\* check_safety letting a classifier error pass
check_safety_fail_open(safety) ==
    IF safety = "sql"
    THEN [reason_code |-> "PREFILTER_SQL_INJECTION",
          trace_events |-> <<"PREFILTER_MATCH", "BLOCK_ACTION">>]
    ELSE IF safety = "blocked"
    THEN [reason_code |-> "SEMANTIC_JAILBREAK_ATTEMPT",
          trace_events |-> <<"PREFILTER_PASS", "SEMANTIC_ANALYSIS_START",
                             "SEMANTIC_RISK_DETECTED", "BLOCK_ACTION",
                             "SAFE_FALLBACK_GENERATED">>]
    ELSE [reason_code |-> "", trace_events |-> <<>>]

\* SafetyService.check_safety: the refusal (reason_code "" standing for
\* None) and its trace.  The anomaly brake cannot block: a query that
\* reaches it passed both prefilters, so every lexical sample is 0.0 and the
\* divergence of the two histories is never above the threshold.
check_safety(safety) ==
    IF safety = "sql"
    THEN [reason_code |-> "PREFILTER_SQL_INJECTION",
          trace_events |-> <<"PREFILTER_MATCH", "BLOCK_ACTION">>]
    ELSE IF safety = "blocked"
    THEN [reason_code |-> "SEMANTIC_JAILBREAK_ATTEMPT",
          trace_events |-> <<"PREFILTER_PASS", "SEMANTIC_ANALYSIS_START",
                             "SEMANTIC_RISK_DETECTED", "BLOCK_ACTION",
                             "SAFE_FALLBACK_GENERATED">>]
    ELSE IF safety = "raises"
    THEN [reason_code |-> "SAFETY_CLASSIFIER_UNAVAILABLE",
          trace_events |-> <<"PREFILTER_PASS", "SEMANTIC_CLASSIFIER_ERROR",
                             "FAIL_CLOSED_TRIGGERED", "SAFE_FALLBACK_GENERATED">>]
    ELSE [reason_code |-> "", trace_events |-> <<>>]

\* query[:MAX_QUERY_LENGTH]
Truncate(q) == IF Len(q) > MAX_QUERY_LENGTH THEN SubSeq(q, 1, MAX_QUERY_LENGTH) ELSE q

\* str.strip() on the characters the queries use
Strip(q) ==
    LET idx == {i \in 1..Len(q) : q[i] # " "}
    IN  IF idx = {} THEN <<>>
        ELSE SubSeq(q, CHOOSE i \in idx : \A j \in idx : i <= j,
                       CHOOSE i \in idx : \A j \in idx : i >= j)

\* needle in haystack
Contains(haystack, needle) ==
    \E i \in 1..(Len(haystack) - Len(needle) + 1) :
        SubSeq(haystack, i, i + Len(needle) - 1) = needle

\* list.sort(key=..., reverse=True): stable, descending
RECURSIVE SortDesc(_, _)
SortDesc(cs, field) ==
    IF cs = <<>> THEN <<>>
    ELSE LET h == Head(cs)
             rest == SortDesc(Tail(cs), field)
             k == Cardinality({i \in 1..Len(rest) : rest[i][field] > h[field]})
         IN  SubSeq(rest, 1, k) \o <<h>> \o SubSeq(rest, k + 1, Len(rest))

\* the elements of a sequence that satisfy a test, in order
RECURSIVE Filter(_, _)
Filter(cs, keep) ==
    IF cs = <<>> THEN <<>>
    ELSE (IF Head(cs) \in keep THEN <<Head(cs)>> ELSE <<>>) \o Filter(Tail(cs), keep)

IdRank(id) == CHOOSE i \in 1..Len(SkillIds) : SkillIds[i] = id

\* _utf8_tiebreak: the first candidate with the least skill_id
utf8_tiebreak(cs) ==
    LET least == CHOOSE i \in 1..Len(cs) :
                    /\ \A j \in 1..Len(cs) : IdRank(cs[i].skill_id) <= IdRank(cs[j].skill_id)
                    /\ \A j \in 1..(i - 1) : cs[j].skill_id # cs[i].skill_id
    IN  cs[least]

RiskOrder(c) == IF c.risk_level = "MEDIUM" THEN 1 ELSE IF c.risk_level = "HIGH" THEN 2 ELSE 0

\* _make_cache_key: the query and the skill ids in sorted order (each id by
\* its place in the byte order)
make_cache_key(query, candidates) ==
    <<query, SortDesc([i \in 1..Len(candidates) |->
                          [rank |-> 0 - IdRank(candidates[i].skill_id)]], "rank")>>

\* _cache_get: the stored result, NoRoute standing for None
cache_get(cache, key) ==
    IF \E i \in 1..Len(cache) : cache[i][1] = key
    THEN (cache[CHOOSE i \in 1..Len(cache) : cache[i][1] = key])[2]
    ELSE NoRoute

\* _cache_put
cache_put(cache, key, value) ==
    LET without == Filter(cache, {e \in {cache[i] : i \in 1..Len(cache)} : e[1] # key})
    IN  IF \E i \in 1..Len(cache) : cache[i][1] = key
        THEN Append(without, <<key, value>>)
        ELSE IF Len(cache) >= CACHE_SIZE
        THEN Append(Tail(cache), <<key, value>>)
        ELSE Append(cache, <<key, value>>)

\* _build_response
build_response(candidate, trace_events, ran, safety_clearance, approximate, decision_stability, tie_break_applied) ==
    [kind |-> "decision", reason_code |-> "",
     skill_ref |-> IF candidate.skill_ref # "" THEN candidate.skill_ref
                   ELSE candidate.skill_id,
     decision_stability |-> decision_stability,
     tie_break_applied |-> tie_break_applied,
     approximate |-> approximate,
     safety_clearance |-> IF safety_clearance # "" THEN safety_clearance
                          ELSE candidate.safety_clearance,
     trace_events |-> trace_events,
     ran |-> ran]

\* the trace events of Stage 2
stage2_trace(stage1, skip_semantic, embedder) ==
    IF skip_semantic THEN <<"STAGE2_SKIPPED">>
    ELSE IF embedder = "missing" THEN <<>>
    ELSE IF embedder = "raises"
    THEN <<"STAGE2_EMBEDDING_TIMEOUT", "ROUTING_FALLBACK_LEXICAL">>
    ELSE <<"STAGE2_EMBEDDING_GENERATED", "STAGE2_SEMANTIC_SIMILARITY",
           IF \A i \in 1..Len(stage1) : stage1[i].semantic < 30
           THEN "STAGE2_SEMANTIC_SIMILARITY_LOW"
           ELSE IF \E i \in 1..Len(stage1) : stage1[i].semantic >= 70
           THEN "STAGE2_SEMANTIC_THRESHOLD_MET"
           ELSE "STAGE2_CONFIDENCE_MEDIUM">>

\* the trace events of Stage 3
stage3_trace(tied, narrowed) ==
    (IF Len(tied) > 1
     THEN <<"STAGE3_CONFLICT_DETECTED">>
          \o (IF Len(narrowed) < Len(tied) THEN <<"STAGE3_LOWER_RISK_SELECTED">> ELSE <<>>)
          \o (IF Len(narrowed) > 1 THEN <<"STAGE3_TIE_BREAK_SKILL_ID">> ELSE <<>>)
     ELSE <<>>)
    \o <<"ROUTING_DECISION_FINAL">>

\* Stage 2 and the combined score: the semantic score of a candidate when the
\* embedder answered, 0 otherwise
rerank(stage1, stage2_runs, embedder) ==
    [i \in 1..Len(stage1) |->
        LET sem == IF stage2_runs /\ embedder = "loaded" THEN stage1[i].semantic ELSE 0
            lex == stage1[i].bm25
            norm == IF lex > 0 THEN (lex * 100) \div (lex + 100) ELSE 0
        IN  [stage1[i] EXCEPT !.semantic = sem, !.combined = 40 * norm + 60 * sem]]

\* Stage 3: the candidates whose combined score equals the top one
tied_candidates(final) ==
    Filter(final, {c \in {final[i] : i \in 1..Len(final)} : c.combined = final[1].combined})

\* Stage 3: of the tied candidates, those of the least risk
low_risk_tied(tied) ==
    LET min_risk == CHOOSE r \in {RiskOrder(tied[i]) : i \in 1..Len(tied)} :
                        \A i \in 1..Len(tied) : r <= RiskOrder(tied[i])
    IN  Filter(tied, {c \in {tied[i] : i \in 1..Len(tied)} : RiskOrder(c) = min_risk})

\* Stage 3: the tied candidates after the narrowing to the least risk
narrow_by_risk(tied) ==
    IF Len(low_risk_tied(tied)) < Len(tied) THEN low_risk_tied(tied) ELSE tied

\* Stage 3: the response for the chosen candidate
decide(top, conflict, tied_final, trace_events, ran) ==
    LET chosen == IF conflict
                  THEN (IF Len(tied_final) > 1 THEN utf8_tiebreak(tied_final)
                        ELSE tied_final[1])
                  ELSE top
        stability == IF conflict
                     THEN (IF Len(tied_final) > 1 THEN "tie_break_lexical_order"
                           ELSE "conflict_resolved")
                     ELSE IF top.semantic > 50 THEN "semantic_supported"
                     ELSE IF top.semantic > 0 THEN "approximate_match"
                     ELSE "deterministic"
        clearance == IF conflict
                        /\ \E i \in 1..Len(tied_final) :
                               tied_final[i].risk_level \in {"MEDIUM", "HIGH"}
                     THEN "restricted" ELSE top.safety_clearance
    IN  build_response(chosen, trace_events, ran, clearance,
                       chosen.semantic < 30 /\ chosen.bm25 < 100,
                       stability, conflict /\ Len(tied_final) > 1)

\* Stage 3: conflict resolution over the candidates sorted by combined score
resolve(tied, top, trace_events, ran) ==
    decide(top, Len(tied) > 1, narrow_by_risk(tied),
           trace_events \o stage3_trace(tied, narrow_by_risk(tied)), ran)

\* Stage 1 to Stage 3 of route, after the cache miss
pipeline(candidates, skip_semantic, embedder) ==
    LET stage1 == SortDesc(candidates, "bm25")
        stage2_runs == ~skip_semantic /\ embedder # "missing"
        ran1 == {"safety", "cache", "stage1"}
        ran3 == ran1 \cup (IF stage2_runs THEN {"stage2"} ELSE {}) \cup {"stage3"}
        final == SortDesc(rerank(stage1, stage2_runs, embedder), "combined")
        trace1 == <<"SAFETY_CHECK_PASS", "STAGE1_LEXICAL_MATCH">>
        identical == IF \E i \in 2..Len(stage1) : stage1[i].bm25 = stage1[1].bm25
                     THEN <<"STAGE1_IDENTICAL_SCORES">> ELSE <<>>
    IN  IF stage1[1].bm25 = 0
        THEN [result |-> build_response(stage1[1],
                                        trace1 \o <<"STAGE1_NO_MATCHES",
                                                    "ROUTING_FALLBACK_DEFAULT",
                                                    "ROUTING_DECISION_FINAL">>,
                                        ran1, "", TRUE, "fallback_default", FALSE),
              store |-> FALSE]
        ELSE [result |-> resolve(tied_candidates(final), final[1],
                                 trace1 \o identical
                                        \o stage2_trace(stage1, skip_semantic, embedder),
                                 ran3),
              store |-> TRUE]

\* the refusal of a blank query
empty_query_refusal ==
    [NoRoute EXCEPT !.kind = "refusal", !.reason_code = "INVALID_REQUEST_EMPTY_QUERY",
                    !.trace_events = <<"VALIDATION_FAILED", "SAFE_FALLBACK_GENERATED">>]

\* the direct dispatch of the escape hatch
escape_hatch(candidates, ran) ==
    build_response(candidates[1],
                   <<"ROUTING_ESCAPE_HATCH_DETECTED", "ROUTING_SKILL_ID_PARSED",
                     "ROUTING_DIRECT_DISPATCH", "ROUTING_DECISION_FINAL">>,
                   ran, "", FALSE, "escape_hatch_direct", FALSE)

\* the escalation of an empty pool
empty_pool_escalation(ran) ==
    [NoRoute EXCEPT !.kind = "decision", !.skill_ref = "None",
                    !.safety_clearance = "escalate",
                    !.decision_stability = "no_candidates",
                    !.trace_events = <<"ROUTING_POOL_EMPTY", "ROUTING_ESCALATION_REQUIRED">>,
                    !.ran = ran]

\* the refusal built from what check_safety returned
safety_refusal(safety_result) ==
    [NoRoute EXCEPT !.kind = "refusal", !.reason_code = safety_result.reason_code,
                    !.trace_events = safety_result.trace_events, !.ran = {"safety"}]

\* the cached result with a fresh trace
cache_hit(cached) ==
    [cached EXCEPT !.ran = {"safety", "cache"}, !.trace_events = <<"CACHE_HIT">>]

\* Stage 1 to Stage 3 and the store of the decision
miss(cache, key, piped) ==
    [result |-> piped.result,
     cache |-> IF piped.store THEN cache_put(cache, key, piped.result) ELSE cache]

\* route with the safety check ahead of the escape hatch
route_safety_before_override(cache, raw_query, candidates, skip_semantic, safety, embedder) ==
    LET query == Truncate(raw_query)
        key == make_cache_key(query, candidates)
        cached == cache_get(cache, key)
    IN  IF Strip(query) = <<>>
        THEN [result |-> empty_query_refusal, cache |-> cache]
        ELSE IF candidates = <<>>
        THEN [result |-> empty_pool_escalation({}), cache |-> cache]
        ELSE IF check_safety(safety).reason_code # ""
        THEN [result |-> safety_refusal(check_safety(safety)), cache |-> cache]
        ELSE IF Contains(query, OVERRIDE)
        THEN [result |-> escape_hatch(candidates, {"safety"}), cache |-> cache]
        ELSE IF cached # NoRoute
        THEN [result |-> cache_hit(cached), cache |-> cache]
        ELSE miss(cache, key, pipeline(candidates, skip_semantic, embedder))

\* route with the safety check ahead of the empty-pool check
route_safety_before_pool(cache, raw_query, candidates, skip_semantic, safety, embedder) ==
    LET query == Truncate(raw_query)
        key == make_cache_key(query, candidates)
        cached == cache_get(cache, key)
    IN  IF Strip(query) = <<>>
        THEN [result |-> empty_query_refusal, cache |-> cache]
        ELSE IF Contains(query, OVERRIDE) /\ candidates # <<>>
        THEN [result |-> escape_hatch(candidates, {}), cache |-> cache]
        ELSE IF check_safety(safety).reason_code # ""
        THEN [result |-> safety_refusal(check_safety(safety)), cache |-> cache]
        ELSE IF candidates = <<>>
        THEN [result |-> empty_pool_escalation({"safety"}), cache |-> cache]
        ELSE IF cached # NoRoute
        THEN [result |-> cache_hit(cached), cache |-> cache]
        ELSE miss(cache, key, pipeline(candidates, skip_semantic, embedder))

\* RouterService.route: the response and the cache after the call
route(cache, raw_query, candidates, skip_semantic, safety, embedder) ==
    LET query == Truncate(raw_query)
        key == make_cache_key(query, candidates)
        cached == cache_get(cache, key)
    IN  IF Strip(query) = <<>>
        THEN [result |-> empty_query_refusal, cache |-> cache]
        ELSE IF Contains(query, OVERRIDE) /\ candidates # <<>>
        THEN [result |-> escape_hatch(candidates, {}), cache |-> cache]
        ELSE IF candidates = <<>>
        THEN [result |-> empty_pool_escalation({}), cache |-> cache]
        ELSE IF check_safety(safety).reason_code # ""
        THEN [result |-> safety_refusal(check_safety(safety)), cache |-> cache]
        ELSE IF cached # NoRoute
        THEN [result |-> cache_hit(cached), cache |-> cache]
        ELSE miss(cache, key, pipeline(candidates, skip_semantic, embedder))

\* sentence-transformers is installed or it is not, for the life of the process
EmbedderConsistent(embedder) ==
    \/ routed.installed = "unknown"
    \/ routed.installed = (IF embedder = "missing" THEN "no" ELSE "yes")

\* the observer record of one call: the request, what the safety layers and
\* the embedder did, and the response
Routed(raw_query, candidates, skip_semantic, safety, embedder, r) ==
    [query |-> raw_query, pool |-> candidates, skip_semantic |-> skip_semantic,
     safety |-> safety, embedder |-> embedder,
     installed |-> IF embedder = "missing" THEN "no" ELSE "yes",
     result |-> r.result]

\* the keys of the cache by last use after one call, a hit and an insertion
\* both counting as a use
Used(key, r) ==
    LET cached == {r.cache[i][1] : i \in 1..Len(r.cache)}
        kept == Filter(lru, {k \in cached : k # key})
    IN  IF r.result.ran = {"safety", "cache"} \/ r.cache # route_cache
        THEN Append(kept, key)
        ELSE lru

\* one call of RouterService.route with its inputs drawn from the given sets
RouteOn(queries, pools, safeties, embedders) ==
    \E raw_query \in queries, candidates \in pools, skip_semantic \in BOOLEAN,
       safety \in safeties, embedder \in embedders :
        LET r == route(route_cache, raw_query, candidates, skip_semantic, safety, embedder)
        IN  /\ EmbedderConsistent(embedder)
            /\ route_cache' = r.cache
            /\ routed' = Routed(raw_query, candidates, skip_semantic, safety, embedder, r)
            /\ lru' = Used(make_cache_key(Truncate(raw_query), candidates), r)
            /\ UNCHANGED notRt

\* one call of RouterService.route: any query over any pool, the classifier
\* answering or failing
Route == RouteOn(Queries, Pools, {"pass", "raises"}, {"loaded", "missing"})

\* pools whose candidates tie on the combined score: two of one risk in both
\* orders, three of which two share the least risk, and pools with a CRITICAL
\* candidate next to candidates of lower risk
TiedPools ==
    { <<Candidate("org.calc", "", 100, 60, "LOW"),
        Candidate("org.admin", "ref.admin", 100, 60, "LOW")>>,
      <<Candidate("org.admin", "ref.admin", 100, 60, "LOW"),
        Candidate("org.calc", "", 100, 60, "LOW")>>,
      <<Candidate("org.weather", "", 100, 60, "MEDIUM"),
        Candidate("org.admin", "", 100, 60, "HIGH"),
        Candidate("org.calc", "", 100, 60, "MEDIUM")>>,
      <<Candidate("org.admin", "", 100, 60, "CRITICAL"),
        Candidate("org.calc", "", 100, 60, "MEDIUM")>>,
      <<Candidate("org.weather", "", 100, 60, "MEDIUM"),
        Candidate("org.calc", "", 100, 60, "MEDIUM"),
        Candidate("org.admin", "", 100, 60, "CRITICAL")>> }

\* one call of RouterService.route over a pool of tied candidates
RouteTied == RouteOn({<<"x", "x", " ">>}, TiedPools, {"pass"}, EmbedderStates)

RtTiedNext == RouteTied

SpecRouterTies == Init /\ [][RtTiedNext]_vars

\* queries that reach the cache, one more than the cache holds
CachedQueries == {<<"x">>, <<"y">>, <<"z">>}

\* two pools of the same skill ids whose descriptions and risk levels differ,
\* so that the same query scores them differently
CachedPools ==
    { <<Candidate("org.weather", "", 100, 20, "HIGH"),
        Candidate("org.calc", "", 300, 10, "LOW")>>,
      <<Candidate("org.weather", "", 300, 80, "LOW"),
        Candidate("org.calc", "", 100, 10, "LOW")>> }

\* one call of RouterService.route with a query that passes the safety check
RouteCached == RouteOn(CachedQueries, CachedPools, {"pass"}, {"loaded"})

RtCachedNext == RouteCached

SpecRouterCache == Init /\ [][RtCachedNext]_vars

RtNext == Route

SpecRouter == Init /\ [][RtNext]_vars

(***************************************************************************)
(* The JSON-RPC endpoint (server.py osp_rpc_endpoint) with the signature   *)
(* middleware.  The handler is a coroutine whose calls into the router and *)
(* the delivery enforcer are synchronous: one request is dispatched at a   *)
(* time, while the degradation level can change at any moment.             *)
(***************************************************************************)
\* the X-OSP-Signature header: absent, a signature that JCS.verify rejects
\* (not base64, or not verifying), a signature that verifies under the
\* algorithm of X-OSP-Alg
Signatures == {"missing", "invalid", "valid"}

Bodies == {"json", "not_json"}

\* one of the methods that only read configuration
InfoMethods == {"osp.get_capabilities"}

\* skill ids of osp.execute: absent from the params, without a tools module,
\* with a module that has no execute, with an executable module
ExecuteSkills == {"", "org.unknown", "org.noexec", "org.calc"}

notSrv == <<regVars, frVars, thrVars, agVars, rlVars, conVars>>

\* JCS.verify: False for a signature that is not base64 or does not verify
jcs_verify(signature) == signature = "valid"

\* verify_request whose except branch only logs
verify_request_except_logs(enforce, public_key, signature, body) ==
    IF signature = "missing" THEN (IF enforce THEN 401 ELSE 0) ELSE 0

\* SignatureVerifier.verify_request: 401 when it raises HTTPException, 0 when
\* it returns
verify_request(enforce, public_key, signature, body) ==
    IF signature = "missing" THEN (IF enforce THEN 401 ELSE 0)
    ELSE IF ~public_key THEN 0
    ELSE IF body = "not_json" THEN (IF enforce THEN 401 ELSE 0)
    ELSE IF ~jcs_verify(signature) THEN (IF enforce THEN 401 ELSE 0)
    ELSE 0

\* osp_rpc_endpoint up to the dispatch: signature, body parse, JSON-RPC version
rpc_prefix(signature, body, jsonrpc_ok) ==
    IF /\ verifier.configured
       /\ verify_request(verifier.enforce, verifier.public_key, signature, body) = 401
    THEN 401
    ELSE IF body = "not_json" THEN 500
    ELSE IF ~jsonrpc_ok THEN 400
    ELSE 0

\* the HTTP status of an osp.route result
route_status(result) ==
    IF result.kind = "refusal"
    THEN IF result.reason_code \in {"SAFETY_CLASSIFIER_UNAVAILABLE", "SAFETY_CHECK_TIMEOUT",
                                    "ANOMALY_DETECTED_SEMANTIC_BYPASS"} THEN 503
         ELSE IF result.reason_code = "INVALID_REQUEST_EMPTY_QUERY" THEN 400
         ELSE 403
    ELSE 200

\* DeliveryContractEnforcer.get_proof: refreshes the stored freshness
get_proof(cs, key, t) ==
    LET i == KeyIndex(cs, key)
    IN  IF i = 0 THEN cs ELSE [cs EXCEPT ![i].freshness = compute_freshness(cs[i], t)]

\* the observer record of one request: the level when it arrived, whether it
\* reached the dispatch, its HTTP status (0 while the skill runs) and the
\* components the handler called
Answer(signature, body, method, dispatch, status, invoked) ==
    [handled |-> TRUE, level |-> current_level, signature |-> signature, body |-> body,
     method |-> method, dispatch |-> dispatch, status |-> status, invoked |-> invoked,
     served |-> rpc.served + (IF invoked = {} THEN 0 ELSE 1)]

\* verifier.set_enforcement(...) at import time, from OSP_SIGNATURE_ENFORCE
SetEnforcement ==
    \E enabled \in BOOLEAN :
        /\ ~rpc.handled
        /\ verifier.configured
        /\ verifier' = [verifier EXCEPT !.enforce = enabled]
        /\ UNCHANGED <<rpc, delVars, degVars, rtVars, notSrv>>

\* the initialisation of the verifier fails at import time: verifier = None
VerifierUnavailable ==
    /\ ~rpc.handled
    /\ verifier.configured
    /\ verifier' = [configured |-> FALSE, enforce |-> FALSE, public_key |-> FALSE]
    /\ UNCHANGED <<rpc, delVars, degVars, rtVars, notSrv>>

\* a request answered before the dispatch: 401, 500 (body) or 400 (version)
RpcRefused ==
    \E signature \in Signatures, body \in Bodies, jsonrpc_ok \in BOOLEAN :
        LET status == rpc_prefix(signature, body, jsonrpc_ok)
        IN  /\ pc = "idle"
            /\ status # 0
            /\ rpc' = Answer(signature, body, "", FALSE, status, {})
            /\ UNCHANGED <<verifier, delVars, degVars, rtVars, notSrv>>

\* queries and pools of the osp.route requests the endpoint receives
ServerQueries == {<<" ", " ">>, <<"x", "x", " ">>}

ServerPools ==
    { <<Candidate("org.weather", "", 100, 20, "HIGH"),
        Candidate("org.calc", "", 300, 10, "LOW")>> }

\* method osp.route
RpcRoute ==
    \E signature \in Signatures, raw_query \in ServerQueries, candidates \in ServerPools,
       skip_semantic \in BOOLEAN, safety \in SafetyOutcomes,
       embedder \in {"loaded", "missing"} :
        LET r == route(route_cache, raw_query, candidates, skip_semantic, safety, embedder)
        IN  /\ pc = "idle"
            /\ rpc.served < MaxRequests
            /\ rpc_prefix(signature, "json", TRUE) = 0
            /\ EmbedderConsistent(embedder)
            /\ route_cache' = r.cache
            /\ routed' = Routed(raw_query, candidates, skip_semantic, safety, embedder, r)
            /\ lru' = Used(make_cache_key(Truncate(raw_query), candidates), r)
            /\ rpc' = Answer(signature, "json", "osp.route", TRUE,
                             route_status(r.result), {"router"})
            /\ UNCHANGED <<verifier, delVars, degVars, notSrv>>

\* method osp.execute up to the first invocation of the skill
RpcExecute ==
    \E signature \in Signatures, skill_id \in ExecuteSkills :
        /\ pc = "idle"
        /\ rpc.served < MaxRequests
        /\ rpc_prefix(signature, "json", TRUE) = 0
        /\ IF skill_id = "org.calc"
           THEN /\ execute_begin("K1", 5, TRUE)
                /\ rpc' = Answer(signature, "json", "osp.execute", TRUE,
                                 IF pc' = "in_fn" THEN 0
                                 ELSE IF del_result'.kind = "idempotent" THEN 200 ELSE 500,
                                 IF pc' = "in_fn" THEN {"delivery", "skill"}
                                 ELSE {"delivery"})
           ELSE /\ rpc' = Answer(signature, "json", "osp.execute", TRUE,
                                 IF skill_id = "" THEN 400
                                 ELSE IF skill_id = "org.unknown" THEN 404 ELSE 500,
                                 {})
                /\ UNCHANGED delVars
        /\ UNCHANGED <<verifier, degVars, rtVars, notSrv>>

\* the skill's execute returns
RpcFnReturn ==
    /\ fn_return("r1")
    /\ rpc' = [rpc EXCEPT !.status = 200]
    /\ UNCHANGED <<verifier, degVars, rtVars, notSrv>>

\* the skill's execute raises: retried by the enforcer, 500 when exhausted
RpcFnRaise ==
    /\ fn_raise
    /\ rpc' = [rpc EXCEPT !.status = IF pc' = "idle" THEN 500 ELSE 0]
    /\ UNCHANGED <<verifier, degVars, rtVars, notSrv>>

\* method osp.get_proof
RpcGetProof ==
    \E signature \in Signatures, idem_key \in {"", "K1"} :
        /\ pc = "idle"
        /\ rpc.served < MaxRequests
        /\ rpc_prefix(signature, "json", TRUE) = 0
        /\ contracts' = IF idem_key = "" THEN contracts ELSE get_proof(contracts, idem_key, now)
        /\ rpc' = Answer(signature, "json", "osp.get_proof", TRUE,
                         IF idem_key = "" THEN 400 ELSE 200,
                         IF idem_key = "" THEN {} ELSE {"delivery"})
        /\ UNCHANGED <<now, proof_log, pc, call, del_result, proof_hist>>
        /\ UNCHANGED <<verifier, degVars, rtVars, notSrv>>

\* the methods that only read configuration, and an unknown method (404)
RpcInfo ==
    \E signature \in Signatures, method \in InfoMethods \cup {"osp.unknown"} :
        /\ pc = "idle"
        /\ rpc_prefix(signature, "json", TRUE) = 0
        /\ rpc' = Answer(signature, "json", method, TRUE,
                         IF method \in InfoMethods THEN 200 ELSE 404, {})
        /\ UNCHANGED <<verifier, delVars, degVars, rtVars, notSrv>>

\* POST /admin/degradation: a handler of the same event loop, so it runs
\* between two requests and never while a skill executes
AdminDegradation ==
    /\ pc = "idle"
    /\ SetLevel

SrvNext ==
    \/ AdminDegradation
    \/ SetEnforcement
    \/ VerifierUnavailable
    \/ RpcRefused
    \/ RpcRoute
    \/ RpcExecute
    \/ RpcFnReturn
    \/ RpcFnRaise
    \/ RpcGetProof
    \/ RpcInfo

SpecServer == Init /\ [][SrvNext]_vars

(***************************************************************************)
(* AgentManager.execute_agent.  The degradation level is read once, by     *)
(* should_use_llm(), before the call of the LLM; set_level may run at any   *)
(* point of the call (the monitor thread, POST /admin/degradation).         *)
(***************************************************************************)
SessionIds == {"s1", "s2"}

\* the candidates left by the hybrid routing, best first
FilteredMetas == {<<>>, <<"org.calc">>}

notAg == <<regVars, delVars, frVars, thrVars, rtVars, srvVars, rlVars, conVars>>

\* AgentManager(skill_manager, degradation_controller=...)
NewAgentManager ==
    \E controller \in BOOLEAN :
        /\ ~agent.handled
        /\ active_sessions = {}
        /\ degradation_controller' = controller
        /\ UNCHANGED <<active_sessions, agent, degVars, notAg>>

\* create_session
CreateSession ==
    \E session_id \in SessionIds \ active_sessions :
        /\ active_sessions' = active_sessions \cup {session_id}
        /\ UNCHANGED <<degradation_controller, agent, degVars, notAg>>

\* execute_agent up to the routing decision: the session lookup, the
\* candidates, the read of should_use_llm and the degraded branch
ExecuteAgent ==
    \E session_id \in SessionIds \cup {"unknown"}, filtered_metas \in FilteredMetas :
        LET use_llm == IF degradation_controller THEN should_use_llm(current_level)
                       ELSE TRUE
            level == IF degradation_controller THEN current_level ELSE D0_NORMAL
            started == [pc |-> "idle", handled |-> TRUE, session_id |-> session_id,
                        error |-> "", level |-> level,
                        should_use_llm |-> use_llm, llm_called |-> FALSE,
                        target_skill_id |-> "", result |-> ""]
        IN  /\ agent.pc = "idle"
            /\ agent' = IF session_id \notin active_sessions
                         THEN [started EXCEPT !.error = "Session not found",
                                              !.level = D0_NORMAL,
                                              !.should_use_llm = TRUE]
                         ELSE IF use_llm
                         THEN [started EXCEPT !.pc = "llm"]
                         ELSE IF filtered_metas # <<>>
                         THEN [started EXCEPT !.pc = "skill",
                                              !.target_skill_id = filtered_metas[1]]
                         ELSE [started EXCEPT !.result = "Service degraded"]
            /\ UNCHANGED <<degradation_controller, active_sessions, degVars, notAg>>

\* llm.chat_completion(...) and the use of its response
ChatCompletion ==
    \E tool_call \in {"", "org.calc"} :
        /\ agent.pc = "llm"
        /\ agent' = IF tool_call # ""
                     THEN [agent EXCEPT !.pc = "skill", !.llm_called = TRUE,
                                        !.target_skill_id = tool_call]
                     ELSE [agent EXCEPT !.pc = "idle", !.llm_called = TRUE,
                                        !.result = "content"]
        /\ UNCHANGED <<degradation_controller, active_sessions, degVars, notAg>>

\* the dispatch of the selected skill
ExecuteSkill ==
    \E outcome \in {"result", "error"} :
        /\ agent.pc = "skill"
        /\ agent' = [agent EXCEPT !.pc = "idle", !.result = outcome]
        /\ UNCHANGED <<degradation_controller, active_sessions, degVars, notAg>>

AgNext ==
    \/ SetLevel
    \/ NewAgentManager
    \/ CreateSession
    \/ ExecuteAgent
    \/ ChatCompletion
    \/ ExecuteSkill

SpecAgent == Init /\ [][AgNext]_vars

(***************************************************************************)
(* server.py: the rate limiter                                             *)
(***************************************************************************)
notRl == <<regVars, delVars, frVars, thrVars, degVars, rtVars, srvVars, agVars, conVars>>

\* check_rate_limit: the status (429 for a refused request, 0 for one let
\* through) and _rate_limits after the call
check_rate_limit(limits, client_ip, t) ==
    LET InWindow(x) == t - x < RATE_LIMIT_WINDOW
        kept == SelectSeq(limits[client_ip], InWindow)
    IN  IF Len(kept) >= RATE_LIMIT_MAX
        THEN [status |-> 429, limits |-> [limits EXCEPT ![client_ip] = kept]]
        ELSE [status |-> 0, limits |-> [limits EXCEPT ![client_ip] = Append(kept, t)]]

\* osp_rpc_endpoint up to the signature check: the route has no dependency
\* and the handler makes no call of check_rate_limit, so every request
\* goes on
RpcArrival ==
    \E client_ip \in Clients :
        /\ Len(let_through[client_ip]) < MaxClientRequests
        /\ let_through' = [let_through EXCEPT ![client_ip] = Append(@, clock)]
        /\ UNCHANGED <<rate_limits, clock, notRl>>

\* time passes
ClockTick ==
    /\ clock < MaxClock
    /\ clock' = clock + 1
    /\ UNCHANGED <<rate_limits, let_through, notRl>>

RlNext == RpcArrival \/ ClockTick

SpecRateLimit == Init /\ [][RlNext]_vars

(***************************************************************************)
(*                         REGISTRY PROPERTIES                             *)
(***************************************************************************)
ValidationErrors == {"invalid_entry_type", "missing_skill_ref", "invalid_content_hash",
                     "missing_signature", "trust_chain_failed", "signature_failed"}

LastRegisterOfRevoked ==
    /\ reg_result.op = "register"
    /\ reg_result.skill_ref \in ever_revoked

\* C1: once revoke(s) has succeeded, no register call for s returns
\* "registered" and the stored entry for s (if any) is never "active" again,
\* also after the entry for s was evicted from the bounded map.
C1_RevokedNeverRegistered ==
    /\ LastRegisterOfRevoked => reg_result.outcome # "registered"
    /\ \A i \in 1..Len(entries) :
          entries[i].skill_ref \in ever_revoked => entries[i].status # "active"

\* a well-formed register call for a revoked skill whose entry has been evicted
C1_Witness ==
    /\ LastRegisterOfRevoked
    /\ reg_result.valid
    /\ IndexOf(entries, reg_result.skill_ref) = 0
    /\ Len(entries) = MAX_ENTRIES

\* C2 as stated: every register call for a revoked skill returns the error
\* that names the revocation, whatever the other fields of the entry are.
C2_AlwaysNamesRevocation ==
    LastRegisterOfRevoked => reg_result.outcome = "revoked"

\* C2 amended: every register call for a revoked skill returns an error; the
\* error names the revocation when the entry passes the checks that precede
\* the revocation check (entry type, content hash, signature, trust chain,
\* signature verification), and is the error of the first failing check
\* otherwise.
C2_NamesRevocationWhenValid ==
    LastRegisterOfRevoked =>
        /\ reg_result.outcome # "registered"
        /\ reg_result.valid => reg_result.outcome = "revoked"
        /\ ~reg_result.valid => reg_result.outcome \in ValidationErrors

\* a well-formed register call for a revoked skill that is still stored
C2_Witness ==
    /\ LastRegisterOfRevoked
    /\ reg_result.valid
    /\ IndexOf(entries, reg_result.skill_ref) # 0

\* C3: revoke(s, signed_by) succeeds only for the signer of the original
\* registration of s or for the admin identity with an admin key configured;
\* any other revoker of a stored skill gets the Unauthorized error.
C3_OnlyOriginalSignerRevokes ==
    LET s == reg_result.skill_ref
        authorized == \/ reg_result.signed_by = orig_signer[s]
                      \/ reg_result.signed_by = ADMIN /\ reg_result.admin_key
    IN  (reg_result.op = "revoke" /\ s \in Skills /\ IndexOf(entries, s) # 0) =>
            /\ reg_result.outcome = "revoked" => authorized
            /\ ~authorized => reg_result.outcome = "unauthorized"

(***************************************************************************)
(*                         DELIVERY PROPERTIES                             *)
(***************************************************************************)
Count(events, ev) == Cardinality({k \in 1..Len(events) : events[k] = ev})

\* the call in the frame follows a successful call with the same key and was
\* admitted by the degradation check
SecondCallAfterSuccess ==
    /\ call.prev.kind = "success"
    /\ call.prev.key = call.key
    /\ call.admitted

IdempotentReturn ==
    /\ pc = "idle"
    /\ call.invocations = 0
    /\ del_result.kind = "idempotent"
    /\ del_result.result = call.prev.result
    /\ Count(call.events, "IDEMPOTENT_RETURN") = 1

FoundCompletedLive ==
    /\ call.found.state = "live"
    /\ call.found.status = "completed"

\* C4 as stated: the second of two calls with the same key, the first of which
\* succeeded, does not invoke execute_fn, returns the stored result with
\* idempotent=true and appends exactly one IDEMPOTENT_RETURN entry.
C4_SecondCallAlwaysCached ==
    SecondCallAfterSuccess => IdempotentReturn

\* C4 amended: the same, provided that when the second call starts the
\* contract completed by the first call is still in the contracts map and has
\* not reached its expires_at.
C4_SecondCallCachedWhileLive ==
    (SecondCallAfterSuccess /\ FoundCompletedLive) => IdempotentReturn

\* the second call returned the result cached by the first
C4_Witness ==
    /\ SecondCallAfterSuccess
    /\ FoundCompletedLive
    /\ del_result.kind = "idempotent"
    /\ del_result.result = "r2"

C6_FailedIsTerminal ==
    (call.admitted /\ call.found.state = "live" /\ call.found.status = "failed") =>
        call.invocations = 0

Rank(label) == IF label = "fresh" THEN 0 ELSE IF label = "stale" THEN 1 ELSE 2

C9_NoCompletionAfterExpiry ==
    del_result.kind = "success" => del_result.at < del_result.contract.expires_at

\* C10: every proof entry's prev_hash is the hash of the entry appended
\* immediately before it, the first entry ever appended has the genesis
\* prev_hash, and the retained log is the tail of what was appended.
C10_ProofChain ==
    /\ \A k \in 1..Len(proof_hist) :
          proof_hist[k].prev_hash =
              IF k = 1 THEN GENESIS ELSE SHA256(serialize_proof(proof_hist[k - 1]))
    /\ Len(proof_log) <= Len(proof_hist)
    /\ \A k \in 1..Len(proof_log) :
          proof_log[k] = proof_hist[Len(proof_hist) - Len(proof_log) + k]

\* the log has evicted its oldest entries
C10_Witness ==
    /\ Len(proof_hist) > MAX_PROOF_LOG + 1
    /\ Len(proof_log) = MAX_PROOF_LOG

\* C11: each appended proof entry has a sequence number strictly greater than
\* that of the entry appended before it, also after the log evicts entries.
C11_SequenceMonotonic ==
    \A k \in 2..Len(proof_hist) : proof_hist[k].sequence > proof_hist[k - 1].sequence

\* C12: with appends from several threads the log has pairwise distinct
\* sequence numbers and every entry's prev_hash is the hash of the entry
\* placed immediately before it in the log.
C12_ConcurrentAppendsSerialized ==
    /\ \A i, j \in 1..Len(proof_log) :
          i # j => proof_log[i].sequence # proof_log[j].sequence
    /\ \A k \in 2..Len(proof_log) :
          proof_log[k].prev_hash = SHA256(serialize_proof(proof_log[k - 1]))

(***************************************************************************)
(* Properties of the degradation controller                                *)
(***************************************************************************)
\* C13: in every reachable state check_request_allowed() is false iff the
\* level is D3_CRITICAL, should_use_llm() is true iff the level is D0_NORMAL
\* and is_strict_routing_only() is true iff the level is D2_MINIMAL or
\* D3_CRITICAL.
C13_Capabilities ==
    /\ current_level \in Levels
    /\ check_request_allowed(current_level) = FALSE <=> current_level = D3_CRITICAL
    /\ should_use_llm(current_level) <=> current_level = D0_NORMAL
    /\ is_strict_routing_only(current_level)
           <=> current_level \in {D2_MINIMAL, D3_CRITICAL}

\* every level is reached; this one by an escalation of the monitor
C13_Witness ==
    /\ current_level = D3_CRITICAL
    /\ trail # <<>>
    /\ trail[Len(trail)].kind = "up"
    /\ trail[Len(trail)].changed

\* C14: with no set_level between the samples concerned, a sample whose
\* target is above the current level raises the level exactly when the sample
\* before it also had its target above the level and did not raise it (the
\* 2nd of two consecutive samples); a sample whose target is below the level
\* lowers it exactly when the three samples before it also had their target
\* below the level and did not lower it (the 4th of four); a sample with the
\* target equal to the level never changes it.
C14_Hysteresis ==
    trail # <<>> =>
        LET n == Len(trail)
            last == trail[n]
        IN  /\ (last.kind = "up" /\ ~last.manual) =>
                  (last.changed <=>
                      (n >= 2 /\ trail[n - 1].kind = "up" /\ ~trail[n - 1].changed))
            /\ (last.kind = "down"
                    /\ \A i \in 1..n : i >= n - 2 => ~trail[i].manual) =>
                  (last.changed <=>
                      (n >= 4 /\ \A i \in (n - 3)..(n - 1) :
                                    trail[i].kind = "down" /\ ~trail[i].changed))
            /\ last.kind = "same" => ~last.changed

\* the level was lowered on the 4th of four consecutive low samples
C14_Witness ==
    /\ Len(trail) = 4
    /\ \A i \in 1..4 : trail[i].kind = "down" /\ ~trail[i].manual
    /\ \A i \in 1..3 : ~trail[i].changed
    /\ trail[4].changed
    /\ current_level = D1_REDUCED_INTELLIGENCE

\* C15: a sample with the target equal to the level resets both counters, an
\* escalating sample resets the recovery counter, a recovering sample resets
\* the escalation counter; hence the monitor changes the level only on a
\* sample that ends 2 high samples in a row or 4 low samples in a row.
C15_AntiOscillation ==
    trail # <<>> =>
        LET n == Len(trail)
            last == trail[n]
        IN  /\ last.kind = "same" => high_load_ticks = 0 /\ normal_load_ticks = 0
            /\ last.kind = "up" => normal_load_ticks = 0
            /\ last.kind = "down" => high_load_ticks = 0
            /\ last.changed =>
                  \/ last.kind = "up" /\ n >= 2 /\ trail[n - 1].kind = "up"
                  \/ last.kind = "down" /\ n >= 4
                       /\ \A i \in (n - 3)..(n - 1) : trail[i].kind = "down"

\* high and low samples broken up by other samples: a stable, a high and two
\* low samples in a row, and the level never moved
C15_Witness ==
    /\ Len(trail) = 4
    /\ trail[1].kind = "same"
    /\ trail[2].kind = "up"
    /\ trail[3].kind = "down"
    /\ trail[4].kind = "down"
    /\ \A i \in 1..4 : ~trail[i].changed /\ ~trail[i].manual
    /\ high_load_ticks = 0
    /\ normal_load_ticks = 2

(***************************************************************************)
(* Properties of the router                                                *)
(***************************************************************************)
\* what _build_response reports for the first candidate of the routed pool
FirstCandidateRef ==
    IF routed.pool[1].skill_ref # "" THEN routed.pool[1].skill_ref
    ELSE routed.pool[1].skill_id

EscapeHatchTaken ==
    /\ routed.result.kind = "decision"
    /\ routed.result.decision_stability = "escape_hatch_direct"
    /\ routed.result.skill_ref = FirstCandidateRef
    /\ routed.result.ran = {}

\* C20 as stated: for any query that contains "@override" and any non-empty
\* pool, route returns the first candidate with decision_stability
\* "escape_hatch_direct" and runs neither safety check, cache nor scoring.
C20_EscapeHatchAnyQuery ==
    (Contains(routed.query, OVERRIDE) /\ routed.pool # <<>>) => EscapeHatchTaken

\* C20 amended: the same for any query whose first MAX_QUERY_LENGTH
\* characters contain "@override".
C20_EscapeHatchTruncatedQuery ==
    (Contains(Truncate(routed.query), OVERRIDE) /\ routed.pool # <<>>) => EscapeHatchTaken

\* an over-long query whose kept part holds the marker, routed to the first
\* of two candidates while the cache holds a result
C20_Witness ==
    /\ Len(routed.query) > MAX_QUERY_LENGTH
    /\ Contains(Truncate(routed.query), OVERRIDE)
    /\ Len(routed.pool) = 2
    /\ EscapeHatchTaken
    /\ route_cache # <<>>

(***************************************************************************)
(* Properties of the /osp-rpc endpoint                                     *)
(***************************************************************************)
\* C16: every JSON-RPC request to /osp-rpc that arrives while the level is
\* D3_CRITICAL is answered 503 at the dispatch, and neither the router, the
\* delivery enforcer nor a skill is invoked for it.
C16_RpcAdmission ==
    (rpc.handled /\ rpc.dispatch /\ rpc.level = D3_CRITICAL)
        => (rpc.status = 503 /\ rpc.invoked = {})

\* C18: an osp.route request that the server handles while the level is
\* D2_MINIMAL or higher never runs Stage 2, whatever the caller's
\* skip_semantic.
C18_StrictRouting ==
    (rpc.handled /\ rpc.method = "osp.route" /\ rpc.level >= D2_MINIMAL)
        => "stage2" \notin routed.result.ran

\* C19: with a verifier configured and enforcement on, a request whose
\* signature is missing or does not verify over its body is answered 401 and
\* reaches no method; in soft mode no request is answered 401.
C19_RequestAuthentication ==
    /\ (rpc.handled /\ verifier.configured /\ verifier.enforce
            /\ (rpc.signature # "valid" \/ rpc.body # "json"))
        => (rpc.status = 401 /\ ~rpc.dispatch /\ rpc.invoked = {})
    /\ (rpc.handled /\ ~verifier.enforce) => rpc.status # 401

\* a request with a signature that does not verify, refused under enforcement
C19_Witness ==
    /\ rpc.handled
    /\ verifier.configured
    /\ verifier.enforce
    /\ rpc.signature = "invalid"
    /\ rpc.body = "json"
    /\ rpc.status = 401

(***************************************************************************)
(* Properties of execute_agent                                             *)
(***************************************************************************)
\* C17: with a degradation controller attached, a request that execute_agent
\* runs at level D1, D2 or D3 neither calls nor is about to call the LLM's
\* chat_completion; the LLM is called only for a request run at D0_NORMAL.
C17_LlmGating ==
    /\ (agent.handled /\ degradation_controller /\ agent.level # D0_NORMAL)
        => (~agent.llm_called /\ agent.pc # "llm")
    /\ (degradation_controller /\ (agent.llm_called \/ agent.pc = "llm"))
        => agent.level = D0_NORMAL

\* a request of an existing session run at D1 with a controller attached,
\* answered by the first candidate without the LLM
C17_Witness ==
    /\ degradation_controller
    /\ agent.handled
    /\ agent.error = ""
    /\ agent.level = D1_REDUCED_INTELLIGENCE
    /\ agent.pc = "idle"
    /\ agent.target_skill_id = "org.calc"
    /\ agent.result = "result"
    /\ ~agent.llm_called

(***************************************************************************)
(* Properties of the routing pipeline                                      *)
(***************************************************************************)
\* the response of the call just made is the escalation of an empty pool
Escalated ==
    /\ routed'.result.kind = "decision"
    /\ routed'.result.skill_ref = "None"
    /\ routed'.result.safety_clearance = "escalate"
    /\ routed'.result.decision_stability = "no_candidates"
    /\ routed'.result.ran = {}
    /\ route_cache' = route_cache

\* C21 as stated: for any non-empty query and an empty pool, route returns
\* skill_ref null with safety_clearance "escalate" and decision_stability
\* "no_candidates", never a refusal, and neither invokes the safety engine
\* nor touches the cache.
C21_EmptyPoolAnyQuery ==
    [][(routed'.query # <<>> /\ routed'.pool = <<>>) => Escalated]_vars

\* C21 amended: the same for any query whose first MAX_QUERY_LENGTH
\* characters are not all whitespace.
C21_EmptyPoolNonBlankQuery ==
    [][(Strip(Truncate(routed'.query)) # <<>> /\ routed'.pool = <<>>) => Escalated]_vars

\* a query carrying the marker over an empty pool, escalated although the
\* classifier would have failed on it, while the cache holds a result
C21_Witness ==
    /\ routed.pool = <<>>
    /\ Contains(Truncate(routed.query), OVERRIDE)
    /\ routed.safety = "raises"
    /\ routed.result.safety_clearance = "escalate"
    /\ routed.result.ran = {}
    /\ route_cache # <<>>

\* the call just made reached the safety check: its kept query is not blank,
\* it did not take the escape hatch and its pool is not empty
SafetyReached ==
    /\ Strip(Truncate(routed'.query)) # <<>>
    /\ ~Contains(Truncate(routed'.query), OVERRIDE)
    /\ routed'.pool # <<>>

\* C26: when the semantic classifier raises on the query of a route call, the
\* call returns a refusal with reason_code SAFETY_CLASSIFIER_UNAVAILABLE whose
\* trace contains FAIL_CLOSED_TRIGGERED; no candidate is selected and nothing
\* is written to the cache.
C26_SafetyFailClosed ==
    [][(SafetyReached /\ routed'.safety = "raises")
         => /\ routed'.result.kind = "refusal"
            /\ routed'.result.reason_code = "SAFETY_CLASSIFIER_UNAVAILABLE"
            /\ \E i \in 1..Len(routed'.result.trace_events) :
                   routed'.result.trace_events[i] = "FAIL_CLOSED_TRIGGERED"
            /\ routed'.result.skill_ref = ""
            /\ route_cache' = route_cache]_vars

\* the classifier raised on a query whose decision over the same pool is in
\* the cache, and the call was refused
C26_Witness ==
    /\ routed.safety = "raises"
    /\ routed.result.reason_code = "SAFETY_CLASSIFIER_UNAVAILABLE"
    /\ cache_get(route_cache, make_cache_key(Truncate(routed.query), routed.pool)) # NoRoute

\* the codes that may end a trace: the final decision, a routing fallback, a
\* block or a failure
TerminalCodes ==
    {"ROUTING_DECISION_FINAL", "ROUTING_FALLBACK_DEFAULT", "ROUTING_FALLBACK_LEXICAL",
     "BLOCK_ACTION", "FAIL_CLOSED_TRIGGERED", "VALIDATION_FAILED"}

\* C27: the last trace event of every response of route is
\* ROUTING_DECISION_FINAL, a ROUTING_FALLBACK_* code, or a BLOCK/FAIL code.
C27_TraceTerminal ==
    routed.result.kind # "none"
        => /\ routed.result.trace_events # <<>>
           /\ routed.result.trace_events[Len(routed.result.trace_events)] \in TerminalCodes

\* the candidates of the routed pool that tie on the top combined score, as
\* Stage 3 sees them
TiedOnTop ==
    tied_candidates(SortDesc(rerank(SortDesc(routed.pool, "bm25"),
                                    "stage2" \in routed.result.ran, routed.embedder),
                             "combined"))

\* the order of risk: LOW < MEDIUM < HIGH, CRITICAL counting as HIGH
Risk(c) ==
    IF c.risk_level = "MEDIUM" THEN 1
    ELSE IF c.risk_level \in {"HIGH", "CRITICAL"} THEN 2
    ELSE 0

\* the tied candidates of the least risk
MinRiskTied ==
    {c \in {TiedOnTop[i] : i \in 1..Len(TiedOnTop)} :
        \A i \in 1..Len(TiedOnTop) : Risk(c) <= Risk(TiedOnTop[i])}

\* what route reports as skill_ref for a candidate
RefOf(c) == IF c.skill_ref # "" THEN c.skill_ref ELSE c.skill_id

\* C22: when several candidates tie on the top combined score and more than
\* one of them has the least risk among the tied ones, the decision is the
\* one of least skill_id in UTF-8 byte order among those, with
\* tie_break_applied true and decision_stability "tie_break_lexical_order".
C22_TiebreakOrdering ==
    ("stage3" \in routed.result.ran /\ Cardinality(MinRiskTied) > 1)
        => /\ \E c \in MinRiskTied :
                 /\ routed.result.skill_ref = RefOf(c)
                 /\ \A d \in MinRiskTied : IdRank(c.skill_id) <= IdRank(d.skill_id)
           /\ routed.result.tie_break_applied
           /\ routed.result.decision_stability = "tie_break_lexical_order"

\* C23: the skill selected among the candidates tied on the top combined
\* score has the least risk of the tied set, CRITICAL counting as HIGH.
C23_LeastRiskSelected ==
    "stage3" \in routed.result.ran
        => \E c \in MinRiskTied : routed.result.skill_ref = RefOf(c)

\* the decision fields of a response
Decision(result) ==
    <<result.kind, result.reason_code, result.skill_ref, result.safety_clearance,
      result.approximate, result.decision_stability, result.tie_break_applied>>

\* C24: a route call that repeats the request of the call before it, with
\* Stage 2 disabled, returns the same decision with the same trace_events.
C24_RoutingDeterminism ==
    [][(/\ routed.result.kind # "none"
        /\ routed'.query = routed.query
        /\ routed'.pool = routed.pool
        /\ routed'.skip_semantic /\ routed.skip_semantic
        /\ routed'.safety = routed.safety
        /\ routed'.embedder = routed.embedder)
         => /\ Decision(routed'.result) = Decision(routed.result)
            /\ routed'.result.trace_events = routed.result.trace_events]_vars

\* C25: the decision fields route returns for a request are those a router
\* that has handled no request returns for it.
C25_RoutingStateless ==
    routed.result.kind # "none"
        => Decision(routed.result)
             = Decision(route(<<>>, routed.query, routed.pool, routed.skip_semantic,
                              routed.safety, routed.embedder).result)

\* C28: the cache never holds more than CACHE_SIZE decisions, and the entry
\* an overflowing insertion evicts is the least recently used one, a hit and
\* an insertion both counting as a use.
C28_CacheIsLru ==
    [][/\ Len(route_cache') <= CACHE_SIZE
       /\ \A i \in 1..Len(route_cache) :
              (\A j \in 1..Len(route_cache') : route_cache'[j][1] # route_cache[i][1])
                  => route_cache[i][1] = lru[1]]_vars

(***************************************************************************)
(* Properties of the rate limiter                                          *)
(***************************************************************************)
\* the requests of a client let through in the window that ends at time t
InWindowAt(client_ip, t) ==
    {i \in 1..Len(let_through[client_ip]) :
        /\ let_through[client_ip][i] <= t
        /\ t - let_through[client_ip][i] < RATE_LIMIT_WINDOW}

\* C29: for each client IP at most RATE_LIMIT_MAX requests to /osp-rpc are
\* let through within any window of RATE_LIMIT_WINDOW seconds; a request
\* beyond that is answered 429 and not dispatched.
C29_RateLimited ==
    \A client_ip \in Clients : \A t \in 0..clock :
        Cardinality(InWindowAt(client_ip, t)) <= RATE_LIMIT_MAX

(***************************************************************************)
(* Properties of the transparency log                                      *)
(***************************************************************************)
\* the SHA-256 of a serialized log entry
EntryHash(e) ==
    SHA256(<<StrCode(e.event_type, RegStrings), StrCode(e.skill_ref, RegStrings), e.sequence>>
           \o e.context \o <<e.prev_hash>>)

\* the call just made appended exactly one entry of the given type for its
\* skill behind the entries the log held, the oldest of them making room
AppendedOne(event_type) ==
    /\ log_appended' = log_appended + 1
    /\ log'[Len(log')].event_type = event_type
    /\ log'[Len(log')].skill_ref = reg_result'.skill_ref
    /\ \A i \in 1..(Len(log') - 1) : log'[i] = log[Len(log) - (Len(log') - 1) + i]

\* C30: every entry of the transparency log carries as prev_hash the SHA-256
\* of the entry appended immediately before it, the first entry ever appended
\* carries the genesis value, and every accepted register appends exactly one
\* REGISTERED entry and every successful revoke exactly one REVOKED entry, in
\* call order.
C30_TransparencyLogChain ==
    [][/\ \A i \in 2..Len(log') : log'[i].prev_hash = EntryHash(log'[i - 1])
       /\ log_appended' > log_appended
            => log'[Len(log')].prev_hash
                 = IF log = <<>> THEN GENESIS ELSE EntryHash(log[Len(log)])
       /\ (reg_result'.op = "register" /\ reg_result'.outcome = "registered")
            => AppendedOne("REGISTERED")
       /\ (reg_result'.op = "revoke" /\ reg_result'.outcome = "revoked")
            => AppendedOne("REVOKED")]_vars

\* a log that has evicted its first entry and holds a REGISTERED entry
\* followed by the REVOKED entry of the revoke just made
C30_Witness ==
    /\ log_appended > MAX_LOG
    /\ Len(log) = MAX_LOG
    /\ log[Len(log) - 1].event_type = "REGISTERED"
    /\ log[Len(log)].event_type = "REVOKED"
    /\ reg_result.op = "revoke" /\ reg_result.outcome = "revoked"
    /\ log[Len(log)].prev_hash = EntryHash(log[Len(log) - 1])
    /\ log[1].prev_hash # GENESIS

(***************************************************************************)
(* Properties of delivery admission                                        *)
(***************************************************************************)
\* C31: a call of execute_with_contract that the degradation controller does
\* not allow returns the rejected error, appends one REJECTED_DEGRADATION
\* entry under its key, does not invoke execute_fn and leaves the contracts
\* map as it was.
C31_DeliveryAdmission ==
    [][(\E key \in Keys, ttl_seconds \in TTLs : execute_begin(key, ttl_seconds, FALSE))
         => /\ del_result'.kind = "rejected"
            /\ Len(proof_hist') = Len(proof_hist) + 1
            /\ proof_hist'[Len(proof_hist')].event_type = "REJECTED_DEGRADATION"
            /\ proof_hist'[Len(proof_hist')].idempotency_key = call'.key
            /\ call'.invocations = 0
            /\ pc' = "idle"
            /\ contracts' = contracts]_vars

\* a refused call whose key has a completed, unexpired contract
C31_Witness ==
    /\ del_result.kind = "rejected"
    /\ ~call.admitted
    /\ call.events = <<"REJECTED_DEGRADATION">>
    /\ call.found.state = "live"
    /\ call.found.status = "completed"
    /\ del_result.key = call.key

(***************************************************************************)
(* Properties of registration under a trust anchor                         *)
(***************************************************************************)
\* the trust-chain rule for an anchor that is not self_signed
AnchorRule(entry) ==
    \/ Get(entry.trust_anchor, "type") = "root_ca" /\ Get(entry.trust_anchor, "uri") # ""
    \/ /\ Get(entry.trust_anchor, "type") = "intermediate_ca"
       /\ Get(entry.trust_anchor, "uri") # ""
       /\ Get(entry.trust_anchor, "proof") # ""
    \/ Get(entry.trust_anchor, "type") = "did" /\ Get(entry.trust_anchor, "uri") = "did:x"

\* well-formed entries of a skill that is not revoked, under an anchor that is
\* not self_signed
AnchoredEntries ==
    {entry \in WellFormedEntries :
        /\ Get(entry.trust_anchor, "type") \notin {"", "self_signed"}
        /\ entry.skill_ref \notin revoked}

\* C32: register accepts an entry of a not-revoked skill under an anchor that
\* is not self_signed when the anchor satisfies the trust-chain rule and the
\* signature verifies against the anchor's public key (the entry is stored
\* active and REGISTERED is logged), and rejects it when the rule or the
\* signature check fails.
C32_AnchoredRegistration ==
    [][\A entry \in AnchoredEntries, signed \in SignatureStates :
          register(entry, TRUE, signed)
            => IF /\ AnchorRule(entry)
                  /\ Get(entry.trust_anchor, "public_key") # ""
                  /\ signed = "genuine"
               THEN /\ reg_result'.outcome = "registered"
                    /\ \E i \in 1..Len(entries') :
                          /\ entries'[i].skill_ref = entry.skill_ref
                          /\ entries'[i].status = "active"
                    /\ log'[Len(log')].event_type = "REGISTERED"
               ELSE reg_result'.outcome # "registered"]_vars

\* ---------------------------------------------------------------------------
\* DeliveryContractEnforcer.execute_with_contract called from several threads
\* with the same idempotency key and an execute_fn that succeeds.  The class
\* holds no lock: a thread can be suspended between issue_contract and the
\* read of execution_status, and while execute_fn runs.
\* ---------------------------------------------------------------------------

\* the calls one thread makes
MaxThreadCalls == 2

SharedKey == "K1"

SharedTtl == 5

\* contract = self.issue_contract(...)
caller_issue(t) ==
    LET iss == issue_contract(contracts, [log |-> proof_log, hist |-> proof_hist],
                              SKILL, SharedTtl, DEFAULT_MAX_RETRIES, SharedKey, now)
    IN  /\ callers[t].pc = "idle"
        /\ callers[t].calls < MaxThreadCalls
        /\ contracts' = iss.contracts
        /\ proof_log' = iss.proof.log
        /\ proof_hist' = iss.proof.hist
        /\ callers' = [callers EXCEPT ![t].pc = "issued", ![t].calls = @ + 1]
        /\ UNCHANGED fn_invocations

\* the read of execution_status, validate_contract and the call of execute_fn
caller_check(t) ==
    LET i == KeyIndex(contracts, SharedKey)
        contract == contracts[i]
        freshness == compute_freshness(contract, now)
        P0 == [log |-> proof_log, hist |-> proof_hist]
        P == IF contract.execution_status = "completed"
             THEN append_proof(P0, "IDEMPOTENT_RETURN", SharedKey,
                               <<StrCode("already_executed", DelStrings)>>, now)
             ELSE IF freshness = "expired"
             THEN append_proof(P0, "CONTRACT_EXPIRED", SharedKey,
                               <<StrCode(SKILL, DelStrings)>>, now)
             ELSE P0
    IN  /\ callers[t].pc = "issued"
        /\ proof_log' = P.log
        /\ proof_hist' = P.hist
        /\ IF contract.execution_status = "completed"
           THEN /\ contracts' = contracts
                /\ callers' = [callers EXCEPT ![t].pc = "idle",
                                              ![t].returned = "idempotent"]
                /\ fn_invocations' = fn_invocations
           ELSE IF freshness = "expired"
           THEN /\ contracts' = [contracts EXCEPT ![i].freshness = freshness]
                /\ callers' = [callers EXCEPT ![t].pc = "idle",
                                              ![t].returned = "expired"]
                /\ fn_invocations' = fn_invocations
           ELSE /\ contracts' = [contracts EXCEPT ![i].freshness = freshness]
                /\ callers' = [callers EXCEPT ![t].pc = "in_fn"]
                /\ fn_invocations' = fn_invocations + 1

\* execute_fn returns: the contract is completed and EXECUTION_SUCCESS logged
caller_fn_return(t, result) ==
    LET i == KeyIndex(contracts, SharedKey)
        P == append_proof([log |-> proof_log, hist |-> proof_hist],
                          "EXECUTION_SUCCESS", SharedKey,
                          <<StrCode(SKILL, DelStrings), 1>>, now)
    IN  /\ callers[t].pc = "in_fn"
        /\ contracts' = [contracts EXCEPT ![i].execution_result = result,
                                          ![i].execution_status = "completed"]
        /\ proof_log' = P.log
        /\ proof_hist' = P.hist
        /\ callers' = [callers EXCEPT ![t].pc = "idle", ![t].returned = "success"]
        /\ UNCHANGED fn_invocations

notCallers == <<regVars, frVars, thrVars, degVars, rtVars, srvVars, agVars, rlVars,
                now, pc, call, del_result, shared_cache, shared_order, routers, route_error,
                lexical_history, semantic_history, safety_checked,
                monitor_write, lcVars>>

CallerIssue == \E t \in DOMAIN callers : caller_issue(t) /\ UNCHANGED notCallers

CallerCheck == \E t \in DOMAIN callers : caller_check(t) /\ UNCHANGED notCallers

CallerFnReturn ==
    \E t \in DOMAIN callers, result \in Results :
        caller_fn_return(t, result) /\ UNCHANGED notCallers

CallersNext == CallerIssue \/ CallerCheck \/ CallerFnReturn

SpecDeliveryThreads == Init /\ [][CallersNext]_vars

SuccessEntries(key) ==
    {n \in DOMAIN proof_hist : /\ proof_hist[n].event_type = "EXECUTION_SUCCESS"
                               /\ proof_hist[n].idempotency_key = key}

\* C33: with concurrent execute_with_contract calls on one idempotency key and
\* an execute_fn that succeeds, execute_fn is invoked at most once in total,
\* at most one EXECUTION_SUCCESS entry is logged for the key (exactly one once
\* a call has returned), and every call but one returns as an idempotent
\* return.
C33_ConcurrentIdempotency ==
    /\ fn_invocations <= 1
    /\ Cardinality(SuccessEntries(SharedKey)) <= 1
    /\ Cardinality({t \in DOMAIN callers : callers[t].returned = "success"}) <= 1
    /\ (\E t \in DOMAIN callers : callers[t].returned # "none")
           => Cardinality(SuccessEntries(SharedKey)) = 1

\* ---------------------------------------------------------------------------
\* RouterService.route called from several threads.  The cache is a dict and
\* a list updated by _cache_put without a lock; each dict or list operation
\* is one step, and a thread can be suspended between any two of them.
\* ---------------------------------------------------------------------------

\* the route calls one thread makes
MaxRouteCalls == 2

CacheKeys == {"kx", "ky", "kz"}

\* without(seq, key): list.remove(key), the first occurrence taken out
without(order, key) ==
    LET n == CHOOSE i \in 1..Len(order) : order[i] = key /\ \A j \in 1..(i - 1) : order[j] # key
    IN  SubSeq(order, 1, n - 1) \o SubSeq(order, n + 1, Len(order))

\* the exception propagates out of route: the call is over
route_raises(t, error) ==
    /\ routers' = [routers EXCEPT ![t].pc = "idle"]
    /\ route_error' = error

\* cached = self._cache_get(cache_key): a hit returns, a miss runs the pipeline
\* and goes on to _cache_put
route_lookup(t, key) ==
    /\ routers[t].pc = "idle"
    /\ routers[t].calls < MaxRouteCalls
    /\ routers' = [routers EXCEPT ![t].calls = @ + 1, ![t].key = key,
                                  ![t].pc = IF key \in shared_cache THEN "idle" ELSE "put"]
    /\ UNCHANGED <<shared_cache, shared_order, route_error>>

\* if key in self._cache: ... elif len(self._cache) >= self.CACHE_SIZE: ...
cache_put_test(t) ==
    /\ routers[t].pc = "put"
    /\ routers' = [routers EXCEPT ![t].pc =
                       IF routers[t].key \in shared_cache THEN "remove"
                       ELSE IF Cardinality(shared_cache) >= CACHE_SIZE THEN "pop"
                       ELSE "store"]
    /\ UNCHANGED <<shared_cache, shared_order, route_error>>

\* self._cache_order.remove(key)
cache_put_remove(t) ==
    /\ routers[t].pc = "remove"
    /\ IF \E i \in 1..Len(shared_order) : shared_order[i] = routers[t].key
       THEN /\ shared_order' = without(shared_order, routers[t].key)
            /\ routers' = [routers EXCEPT ![t].pc = "store"]
            /\ UNCHANGED route_error
       ELSE /\ route_raises(t, "ValueError")
            /\ UNCHANGED shared_order
    /\ UNCHANGED shared_cache

\* oldest = self._cache_order.pop(0)
cache_put_pop(t) ==
    /\ routers[t].pc = "pop"
    /\ IF shared_order # <<>>
       THEN /\ shared_order' = Tail(shared_order)
            /\ routers' = [routers EXCEPT ![t].pc = "del", ![t].oldest = Head(shared_order)]
            /\ UNCHANGED route_error
       ELSE /\ route_raises(t, "IndexError")
            /\ UNCHANGED shared_order
    /\ UNCHANGED shared_cache

\* del self._cache[oldest]
cache_put_del(t) ==
    /\ routers[t].pc = "del"
    /\ IF routers[t].oldest \in shared_cache
       THEN /\ shared_cache' = shared_cache \ {routers[t].oldest}
            /\ routers' = [routers EXCEPT ![t].pc = "store"]
            /\ UNCHANGED route_error
       ELSE /\ route_raises(t, "KeyError")
            /\ UNCHANGED shared_cache
    /\ UNCHANGED shared_order

\* self._cache[key] = value
cache_put_store(t) ==
    /\ routers[t].pc = "store"
    /\ shared_cache' = shared_cache \cup {routers[t].key}
    /\ routers' = [routers EXCEPT ![t].pc = "append"]
    /\ UNCHANGED <<shared_order, route_error>>

\* self._cache_order.append(key), and route returns
cache_put_append(t) ==
    /\ routers[t].pc = "append"
    /\ shared_order' = Append(shared_order, routers[t].key)
    /\ routers' = [routers EXCEPT ![t].pc = "idle"]
    /\ UNCHANGED <<shared_cache, route_error>>

notRouters == <<regVars, delVars, frVars, thrVars, degVars, rtVars, srvVars, agVars, rlVars,
                callers, fn_invocations, lexical_history, semantic_history, safety_checked,
                monitor_write, lcVars>>

RouteLookup ==
    \E t \in DOMAIN routers, key \in CacheKeys : route_lookup(t, key) /\ UNCHANGED notRouters

CachePutTest == \E t \in DOMAIN routers : cache_put_test(t) /\ UNCHANGED notRouters

CachePutRemove == \E t \in DOMAIN routers : cache_put_remove(t) /\ UNCHANGED notRouters

CachePutPop == \E t \in DOMAIN routers : cache_put_pop(t) /\ UNCHANGED notRouters

CachePutDel == \E t \in DOMAIN routers : cache_put_del(t) /\ UNCHANGED notRouters

CachePutStore == \E t \in DOMAIN routers : cache_put_store(t) /\ UNCHANGED notRouters

CachePutAppend == \E t \in DOMAIN routers : cache_put_append(t) /\ UNCHANGED notRouters

RoutersNext ==
    \/ RouteLookup
    \/ CachePutTest
    \/ CachePutRemove
    \/ CachePutPop
    \/ CachePutDel
    \/ CachePutStore
    \/ CachePutAppend

SpecRouterThreads == Init /\ [][RoutersNext]_vars

\* C34: with several threads in route on one RouterService no call raises, and
\* whenever no _cache_put is in progress the cache map and the eviction-order
\* list hold the same set of keys, no key listed twice.
C34_CacheUnderThreads ==
    /\ route_error = ""
    /\ (\A t \in DOMAIN routers : routers[t].pc = "idle")
           => /\ {shared_order[i] : i \in 1..Len(shared_order)} = shared_cache
              /\ Len(shared_order) = Cardinality(shared_cache)

\* ---------------------------------------------------------------------------
\* SafetyService.check_safety: the prefilters, the classifier and the
\* KL-divergence brake over the two score histories.  Scores are in
\* hundredths.  A query is given by what the prefilter patterns and the
\* classifier make of it.
\* ---------------------------------------------------------------------------

\* deque(maxlen=100), scaled
HISTORY_MAXLEN == 3

\* the brake needs 10 samples and reads the last 10, scaled
KL_WINDOW == 2

\* the TF-IDF block threshold 0.25; a scored query has a risk_score of at
\* least 0.15
BLOCK_SCORE == 25

SafetyQueries ==
    [prefilter : {"none", "sql", "command"},
     classified : {"safe", "scored", "raises"},
     risk_score : {15, 20, 30},
     category : {"JAILBREAK", "ILLEGAL", "INTERNAL_STATE"}]

\* SAFETY_CATEGORIES: the risk level and the reason code of a category
risk_level(category) ==
    IF category = "JAILBREAK" THEN "HIGH"
    ELSE IF category = "ILLEGAL" THEN "CRITICAL"
    ELSE "MEDIUM"

category_reason_code(category) ==
    IF category = "JAILBREAK" THEN "SEMANTIC_JAILBREAK_ATTEMPT"
    ELSE IF category = "ILLEGAL" THEN "SEMANTIC_ILLEGAL_ACTIVITY"
    ELSE "SEMANTIC_INTERNAL_STATE_REQUEST"

\* deque.append with maxlen
deque_append(history, x) ==
    IF Len(history) >= HISTORY_MAXLEN THEN Append(Tail(history), x) ELSE Append(history, x)

\* list(history)[-10:]
last_window(history) ==
    SubSeq(history, IF Len(history) > KL_WINDOW THEN Len(history) - KL_WINDOW + 1 ELSE 1,
           Len(history))

RECURSIVE SeqSum(_)
SeqSum(xs) == IF xs = <<>> THEN 0 ELSE Head(xs) + SeqSum(Tail(xs))

\* lexical_score = 1.0 if a prefilter pattern matches the query else 0.0
lexical_score_unfiltered(query) == 100

lexical_score(query) == IF query.prefilter # "none" THEN 100 ELSE 0

\* one term pi * log(pi / qi) of _kl_divergence is positive exactly when
\* max(pi, epsilon) > max(qi, epsilon), with pi = x / (sum of the lexical
\* window) and qi = y / (sum of the semantic window)
term_positive(x, lex_sum, y, sem_sum) ==
    IF x = 0 THEN FALSE
    ELSE IF y = 0 THEN TRUE
    ELSE x * sem_sum > y * lex_sum

\* _kl_divergence(p, q) can exceed the threshold 0.5 only if one of its terms
\* is positive
kl_can_exceed(lex, sem) ==
    \E i \in 1..Len(lex) : term_positive(lex[i], SeqSum(lex), sem[i], SeqSum(sem))

\* check_safety(query, context); exceeds is whether kl_div > 0.5 where the
\* divergence has a positive term
safety_service_check(query, exceeds) ==
    LET blocked == query.risk_score >= BLOCK_SCORE
        lex == deque_append(lexical_history, lexical_score(query))
        sem == deque_append(semantic_history, query.risk_score)
        braked == /\ Len(lex) >= KL_WINDOW
                  /\ kl_can_exceed(last_window(lex), last_window(sem))
                  /\ exceeds
        seen == [prefilter |-> query.prefilter, classified |-> query.classified,
                 risk_score |-> query.risk_score, risk_level |-> risk_level(query.category),
                 reason_code |-> "", appended |-> FALSE, anomaly |-> FALSE]
    IN  IF query.prefilter = "sql"
        THEN /\ safety_checked' = [seen EXCEPT !.reason_code = "PREFILTER_SQL_INJECTION"]
             /\ UNCHANGED <<lexical_history, semantic_history>>
        ELSE IF query.prefilter = "command"
        THEN /\ safety_checked' = [seen EXCEPT !.reason_code = "PREFILTER_COMMAND_INJECTION"]
             /\ UNCHANGED <<lexical_history, semantic_history>>
        ELSE IF query.classified = "raises"
        THEN /\ safety_checked' = [seen EXCEPT !.reason_code = "SAFETY_CLASSIFIER_UNAVAILABLE"]
             /\ UNCHANGED <<lexical_history, semantic_history>>
        ELSE IF query.classified = "safe"
        THEN /\ safety_checked' = [seen EXCEPT !.reason_code = "None"]
             /\ UNCHANGED <<lexical_history, semantic_history>>
        ELSE IF blocked
        THEN /\ safety_checked' = [seen EXCEPT !.reason_code = category_reason_code(query.category)]
             /\ UNCHANGED <<lexical_history, semantic_history>>
        ELSE /\ lexical_history' = lex
             /\ semantic_history' = sem
             /\ safety_checked' =
                    [seen EXCEPT !.appended = TRUE, !.anomaly = braked,
                                 !.reason_code =
                                     IF braked /\ risk_level(query.category) \in {"HIGH", "CRITICAL"}
                                     THEN "ANOMALY_DETECTED_HIGH_RISK" ELSE "None"]

notSafety == <<regVars, delVars, frVars, thrVars, degVars, rtVars, srvVars, agVars, rlVars,
               callers, fn_invocations, shared_cache, shared_order, routers, route_error,
                monitor_write, lcVars>>

CheckSafety ==
    \E query \in SafetyQueries, exceeds \in BOOLEAN :
        safety_service_check(query, exceeds) /\ UNCHANGED notSafety

SafetyNext == CheckSafety

SpecSafety == Init /\ [][SafetyNext]_vars

\* C35: every element of lexical_history is 0.0, because samples are appended
\* only for queries that passed both prefilters and were classified as
\* suspicious but not blocked; the two histories have equal length of at most
\* the deque bound; and check_safety never returns ANOMALY_DETECTED_HIGH_RISK.
C35_AnomalyBrakeInert ==
    /\ \A i \in 1..Len(lexical_history) : lexical_history[i] = 0
    /\ safety_checked.appended
           => /\ safety_checked.prefilter = "none"
              /\ safety_checked.classified = "scored"
              /\ safety_checked.risk_score < BLOCK_SCORE
    /\ Len(lexical_history) = Len(semantic_history)
    /\ Len(lexical_history) <= HISTORY_MAXLEN
    /\ safety_checked.reason_code # "ANOMALY_DETECTED_HIGH_RISK"

\* the brake has run over a full window for a high-risk suspicious query, with
\* the histories at their bound
C35_Witness ==
    /\ safety_checked.appended
    /\ safety_checked.risk_level = "HIGH"
    /\ Len(lexical_history) = HISTORY_MAXLEN
    /\ semantic_history[1] # semantic_history[HISTORY_MAXLEN]

\* ---------------------------------------------------------------------------
\* _monitor_loop observed by the targets of its samples
\* ---------------------------------------------------------------------------

\* the branch of the hysteresis logic a sample takes
branch(level, target) ==
    IF target > level THEN "up" ELSE IF target < level THEN "down" ELSE "same"

\* a sample continues the run when it takes the branch of the sample before
\* it and that one did not move the level
Sampled(run, level, target, h) ==
    LET continues == /\ branch(level, target) # "same"
                     /\ run.kind = branch(level, target)
                     /\ run.count > 0
                     /\ run.to = run.from
    IN  [kind |-> branch(level, target),
         count |-> IF continues THEN run.count + 1 ELSE 1,
         targets |-> IF continues THEN run.targets \cup {target} ELSE {target},
         last |-> target, from |-> level, to |-> h.level]

\* one iteration of _monitor_loop that obtains a sample
MonitorTarget ==
    \E target \in {target_level(cpu, ram) : cpu \in CpuSamples, ram \in RamSamples} :
        LET h == hysteresis(current_level, high_load_ticks, normal_load_ticks, target)
        IN  /\ monitoring
            /\ current_level' = h.level
            /\ high_load_ticks' = h.high
            /\ normal_load_ticks' = h.normal
            /\ sampled' = Sampled(sampled, current_level, target, h)
            /\ UNCHANGED <<monitoring, trail, manual, notDeg>>

MonNext == SetLevel \/ StartMonitoring \/ StopMonitoring \/ MonitorTarget

SpecMonitor == Init /\ [][MonNext]_vars

\* the number of samples that trigger a change on the branch of the last one
RunLength == IF sampled.kind = "up" THEN ESCALATION_THRESHOLD ELSE RECOVERY_THRESHOLD

MonitorMoved == sampled.count > 0 /\ sampled.to # sampled.from

\* C36 as stated: every level the monitor sets was the target of each of the
\* consecutive qualifying samples that triggered the change (2 for
\* escalation, 4 for recovery).
C36_TargetOfWholeRun ==
    MonitorMoved => sampled.count = RunLength /\ sampled.targets = {sampled.to}

\* C36: every level the monitor sets is the target of the last of the
\* consecutive qualifying samples that triggered the change (2 for
\* escalation, 4 for recovery, each with its target on the same side of the
\* level that was current when it was taken); the earlier samples of the run
\* may have had another target.
C36_TargetOfLastSample ==
    MonitorMoved => sampled.count = RunLength /\ sampled.last = sampled.to

\* the monitor escalated to D3 on a sample with target D3 that followed one
\* with target D1
C36_Witness ==
    /\ MonitorMoved
    /\ sampled.kind = "up"
    /\ sampled.targets = {D1_REDUCED_INTELLIGENCE, D3_CRITICAL}
    /\ sampled.from = D0_NORMAL
    /\ sampled.to = D3_CRITICAL
    /\ current_level = D3_CRITICAL

\* ---------------------------------------------------------------------------
\* _monitor_loop in its thread beside set_level called from the admin
\* endpoint.  The loop reads self.current_level in the comparison and writes
\* it in set_level; no lock is held, so a set_level call of the endpoint can
\* run between the two.
\* ---------------------------------------------------------------------------

\* the sample is taken and compared with the level; a comparison that reaches
\* its threshold leaves the call of set_level to be made
monitor_compare(target) ==
    LET kind == branch(current_level, target)
        reached == \/ kind = "up" /\ high_load_ticks + 1 >= ESCALATION_THRESHOLD
                   \/ kind = "down" /\ normal_load_ticks + 1 >= RECOVERY_THRESHOLD
    IN  /\ monitoring
        /\ ~monitor_write.pending
        /\ high_load_ticks' = IF kind = "up" THEN high_load_ticks + 1 ELSE 0
        /\ normal_load_ticks' = IF kind = "down" THEN normal_load_ticks + 1 ELSE 0
        /\ monitor_write' = [pending |-> reached, kind |-> kind, target |-> target]
        /\ UNCHANGED current_level

\* self.set_level(target_level) and the reset of the counter
monitor_set_level ==
    /\ monitor_write.pending
    /\ current_level' = set_level(current_level, monitor_write.target)
    /\ high_load_ticks' = IF monitor_write.kind = "up" THEN 0 ELSE high_load_ticks
    /\ normal_load_ticks' = IF monitor_write.kind = "down" THEN 0 ELSE normal_load_ticks
    /\ monitor_write' = [monitor_write EXCEPT !.pending = FALSE]

notMonitorRace == <<monitoring, trail, manual, sampled, regVars, delVars, frVars, thrVars,
                    rtVars, srvVars, agVars, rlVars, callers, fn_invocations, shared_cache,
                    shared_order, routers, route_error, lexical_history, semantic_history,
                    safety_checked, lcVars>>

MonitorCompare ==
    \E target \in {target_level(cpu, ram) : cpu \in CpuSamples, ram \in RamSamples} :
        monitor_compare(target) /\ UNCHANGED notMonitorRace

MonitorSetLevel == monitor_set_level /\ UNCHANGED notMonitorRace

MonRaceNext ==
    \/ SetLevel
    \/ StartMonitoring
    \/ StopMonitoring
    \/ MonitorCompare
    \/ MonitorSetLevel

SpecMonitorRace == Init /\ [][MonRaceNext]_vars

\* C37: with the monitor loop and set_level running concurrently, the write of
\* a monitor step taken as an escalation never lowers the current level and
\* the write of a step taken as a recovery never raises it.
C37_MonitorDirection ==
    [][(monitor_write.pending /\ ~monitor_write'.pending)
           => /\ monitor_write.kind = "up" => current_level' >= current_level
              /\ monitor_write.kind = "down" => current_level' <= current_level]_vars

\* ---------------------------------------------------------------------------
\* start_monitoring, stop_monitoring and the monitor threads, with psutil
\* installed.  stop_monitoring sets the event and joins for at most 2 seconds,
\* so it can return while the thread is still in its iteration; the loop
\* reads self._stop_event at each test.
\* ---------------------------------------------------------------------------

Alive(id) == loops[id] \notin {"unborn", "dead"}

\* start_monitoring: returns when self._monitor_thread is alive, otherwise a
\* new event and a new thread, which starts with its counters at 0
start_monitoring ==
    IF monitor_thread # 0 /\ Alive(monitor_thread)
    THEN /\ ~joining
         /\ UNCHANGED <<stop_event, monitor_thread, loops, joining, high_load_ticks,
                        normal_load_ticks>>
    ELSE /\ ~joining
         /\ \E id \in 1..MaxLoops : loops[id] = "unborn"
         /\ UNCHANGED joining
         /\ LET id == CHOOSE i \in 1..MaxLoops :
                          loops[i] = "unborn" /\ \A j \in 1..(i - 1) : loops[j] # "unborn"
            IN  /\ stop_event' = "clear"
                /\ monitor_thread' = id
                /\ loops' = [loops EXCEPT ![id] = "test"]
                /\ high_load_ticks' = 0
                /\ normal_load_ticks' = 0

\* stop_monitoring: the event is set if there is one, and the thread, if
\* there is one, is joined
stop_monitoring ==
    /\ ~joining
    /\ stop_event' = IF stop_event = "none" THEN "none" ELSE "set"
    /\ joining' = (monitor_thread # 0)
    /\ UNCHANGED <<monitor_thread, loops, high_load_ticks, normal_load_ticks>>

\* join(timeout=2) returns: the thread has ended, or the 2 seconds are over
\* while it is still in its sample or its sleep
join_return ==
    /\ joining
    /\ loops[monitor_thread] \in {"dead", "sample", "sleep"}
    /\ joining' = FALSE
    /\ UNCHANGED <<stop_event, monitor_thread, loops, high_load_ticks, normal_load_ticks>>

\* while not self._stop_event.is_set()
loop_test(id) ==
    /\ loops[id] = "test"
    /\ loops' = [loops EXCEPT ![id] = IF stop_event = "set" THEN "dead" ELSE "sample"]
    /\ UNCHANGED <<current_level, high_load_ticks, normal_load_ticks>>

\* the sample and the hysteresis logic, then the sleep
loop_sample(id, target) ==
    LET h == hysteresis(current_level, high_load_ticks, normal_load_ticks, target)
    IN  /\ loops[id] = "sample"
        /\ current_level' = h.level
        /\ high_load_ticks' = h.high
        /\ normal_load_ticks' = h.normal
        /\ loops' = [loops EXCEPT ![id] = "sleep"]

\* psutil raises: the except branch logs and sleeps
loop_error(id) ==
    /\ loops[id] = "sample"
    /\ loops' = [loops EXCEPT ![id] = "sleep"]
    /\ UNCHANGED <<current_level, high_load_ticks, normal_load_ticks>>

\* the sleep ends
loop_wake(id) ==
    /\ loops[id] = "sleep"
    /\ loops' = [loops EXCEPT ![id] = "test"]
    /\ UNCHANGED <<current_level, high_load_ticks, normal_load_ticks>>

notLifecycle == <<monitoring, trail, manual, sampled, regVars, delVars, frVars, thrVars,
                  rtVars, srvVars, agVars, rlVars, callers, fn_invocations, shared_cache,
                  shared_order, routers, route_error, lexical_history, semantic_history,
                  safety_checked, monitor_write>>

StartCall ==
    /\ start_monitoring
    /\ wanted' = [wanted EXCEPT !.start = wanted.stopped]
    /\ UNCHANGED <<current_level, notLifecycle>>

StopCall ==
    /\ stop_monitoring
    /\ wanted' = [stopped |-> TRUE, start |-> FALSE]
    /\ UNCHANGED <<current_level, notLifecycle>>

JoinReturn == join_return /\ UNCHANGED <<current_level, wanted, notLifecycle>>

LoopTest ==
    \E id \in 1..MaxLoops :
        loop_test(id) /\ UNCHANGED <<monitor_thread, stop_event, joining, wanted, notLifecycle>>

LoopSample ==
    \E id \in 1..MaxLoops :
        \E target \in {target_level(cpu, ram) : cpu \in CpuSamples, ram \in RamSamples} :
            loop_sample(id, target)
            /\ UNCHANGED <<monitor_thread, stop_event, joining, wanted, notLifecycle>>

LoopError ==
    \E id \in 1..MaxLoops :
        loop_error(id) /\ UNCHANGED <<monitor_thread, stop_event, joining, wanted, notLifecycle>>

LoopWake ==
    \E id \in 1..MaxLoops :
        loop_wake(id) /\ UNCHANGED <<monitor_thread, stop_event, joining, wanted, notLifecycle>>

LoopStep == LoopTest \/ LoopSample \/ LoopError \/ LoopWake

LcNext ==
    \/ StartCall
    \/ StopCall
    \/ JoinReturn
    \/ LoopTest
    \/ LoopSample
    \/ LoopError
    \/ LoopWake

SpecLifecycle == Init /\ [][LcNext]_vars

\* a started thread is scheduled and a join ends: neither stays forever
\* before a step it can take
SpecLifecycleFair == Init /\ [][LcNext]_vars /\ WF_vars(LoopStep) /\ WF_vars(JoinReturn)

Sampling == \E id \in 1..MaxLoops : loops[id] = "sample"

\* at most one monitor loop is alive, hence at most one sampling
OneLoop == Cardinality({id \in 1..MaxLoops : Alive(id)}) <= 1

\* a start_monitoring call while a loop is running creates no thread
NoSecondLoop == [][(StartCall /\ \E id \in 1..MaxLoops : Alive(id)) => loops' = loops]_vars

\* once the event is set the running loop ends
StoppedLoopEnds ==
    \A id \in 1..MaxLoops : (Alive(id) /\ stop_event = "set") ~> ~Alive(id)

\* after a stop_monitoring followed by a start_monitoring (and until the next
\* stop_monitoring) a loop is eventually sampling
RestartSamples == wanted.start ~> (Sampling \/ ~wanted.start)

\* C38: with the metrics backend available at most one monitor loop is
\* sampling at any time, a start_monitoring call while one is running starts
\* no second loop, after stop_monitoring the running loop eventually
\* terminates, and after a stop_monitoring followed by start_monitoring a
\* monitor loop is eventually sampling again.
C38_MonitorLifecycle ==
    /\ []OneLoop
    /\ NoSecondLoop
    /\ StoppedLoopEnds
    /\ RestartSamples

\* C39: a register call that returns an error leaves the entries map and the
\* revoked set unchanged, and a revoke call that returns an error leaves the
\* entries map, the revoked set and the transparency log unchanged.
C39_FailedCallsFrame ==
    [][/\ (reg_result'.op = "register" /\ reg_result'.outcome # "registered")
              => entries' = entries /\ revoked' = revoked
       /\ (reg_result'.op = "revoke" /\ reg_result'.outcome # "revoked")
              => entries' = entries /\ revoked' = revoked /\ log' = log]_vars

\* an unauthorized revoke of a registered skill, after another skill was
\* revoked and the log written
C39_Witness ==
    /\ reg_result.op = "revoke"
    /\ reg_result.outcome = "unauthorized"
    /\ IndexOf(entries, reg_result.skill_ref) # 0
    /\ reg_result.skill_ref \notin revoked
    /\ revoked # {}
    /\ log # <<>>

\* ---------------------------------------------------------------------------
\* DeliveryContractEnforcer.get_proof beside the operations that write the
\* proof log
\* ---------------------------------------------------------------------------

\* get_proof returning every retained entry
proof_entries_unfiltered(lg, key) == lg

\* [entry for entry in self._proof_log if entry.get("idempotency_key") == key]
proof_entries(lg, key) == SelectSeq(lg, LAMBDA entry : entry.idempotency_key = key)

\* a caller of get_proof: None without a contract, otherwise the contract with
\* its freshness refreshed and the entries of the key
GetProof ==
    \E key \in Keys :
        LET i == KeyIndex(contracts, key)
            refreshed == get_proof(contracts, key, now)
        IN  /\ pc = "idle"
            /\ contracts' = refreshed
            /\ del_result' = [NoResult EXCEPT !.kind = IF i = 0 THEN "no_proof" ELSE "proof",
                                              !.key = key]
            /\ UNCHANGED <<now, proof_log, pc, call, proof_hist, notDel>>

\* execute_with_contract without a degradation controller
ExecuteAdmitted ==
    \E key \in Keys, ttl_seconds \in TTLs :
        execute_begin(key, ttl_seconds, TRUE) /\ UNCHANGED notDel

ProofNext ==
    \/ Tick
    \/ IssueContract
    \/ ExecuteAdmitted
    \/ FnReturn
    \/ FnRaise
    \/ GetProof

SpecDeliveryProof == Init /\ [][ProofNext]_vars

\* every entry of the key ever appended, in append order
KeyHistory(key) == SelectSeq(proof_hist, LAMBDA entry : entry.idempotency_key = key)

ExecutionEvents ==
    {"EXECUTION_RETRY", "EXECUTION_SUCCESS", "EXECUTION_FAILED", "IDEMPOTENT_RETURN"}

\* a CONTRACT_ISSUED entry precedes every execution entry
IssuedFirst(es) ==
    \A i \in 1..Len(es) :
        es[i].event_type \in ExecutionEvents
            => \E j \in 1..(i - 1) : es[j].event_type = "CONTRACT_ISSUED"

\* after an EXECUTION_SUCCESS entry an EXECUTION_RETRY or EXECUTION_SUCCESS
\* entry comes only after the CONTRACT_ISSUED entry of a new contract
SuccessIsLast(es) ==
    \A i, j \in 1..Len(es) :
        (/\ i < j
         /\ es[i].event_type = "EXECUTION_SUCCESS"
         /\ es[j].event_type \in {"EXECUTION_RETRY", "EXECUTION_SUCCESS"})
            => \E k \in (i + 1)..(j - 1) : es[k].event_type = "CONTRACT_ISSUED"

IsSuffix(es, hs) ==
    Len(es) <= Len(hs) /\ es = SubSeq(hs, Len(hs) - Len(es) + 1, Len(hs))

====
